---- MODULE Spec2Model ----
(***************************************************************************)
(* Model of the log-parsing and result-aggregation scripts of the kernel   *)
(* timing harness: analysis/analyze_kernel_time.py,                        *)
(* analyze_ablation_kernel_time.py, calculate_end_to_end_overhead.py and   *)
(* calculate_kernel_only_overhead.py.                                      *)
(*                                                                         *)
(* Text is a sequence of one-character strings, so that the string         *)
(* operations of the scripts (index, slicing, re.sub, float, int) are      *)
(* computed character by character.  Times are kept in thousandths of a    *)
(* millisecond (exact integers): floating-point rounding is not modelled.  *)
(* A Python dict is a sequence of [k, v] entries in insertion order.       *)
(***************************************************************************)
EXTENDS Integers, Sequences, FiniteSets, TLC

VARIABLES
    \* ---- normalize_test_name applied once and then to its own result
    norm_in,        \* the identifier given to the first call
    norm_prev,      \* the result of the call before the last one
    norm_out,       \* the result of the last call
    norm_calls      \* number of calls made so far

VARIABLES
    \* ---- one call of parse_baseline_compute_sanitizer / parse_triton_sanitizer
    \*      followed by calculate_totals
    is_triton_sanitizer, \* TRUE: parse_triton_sanitizer, FALSE: parse_baseline_compute_sanitizer
    lines_read,     \* the lines of the file consumed so far by "for line in f"
    test_name,      \* local test_name
    test_number,    \* local test_number
    results,        \* local results (defaultdict(list))
    parse_pc,       \* "open", "scan", "returned", "raised", "totalled"
    parse_exc,      \* exception that ended the call: "none", "FileNotFoundError", "OSError", "ValueError"
    parse_ret,      \* the value returned by the parse function
    totals          \* the value returned by calculate_totals(parse_ret)

VARIABLES
    \* ---- one call of calculate_overhead / calculate_kernel_overhead
    oh_row,         \* the row of data the loop is at: [sanitizer, baseline] cell texts
    oh_ratios,      \* local ratios
    oh_n,           \* number of rows iterated over so far
    oh_pc           \* "loop", "returned"

VARIABLES
    \* ---- one call of analyze_configuration (analyze_kernel_time.py)
    cfg_triton,     \* argument is_triton_sanitizer
    cfg_nfiles,     \* len(log_files)
    cfg_parsed,     \* the log files the loop has gone through, in order
    all_results,    \* local all_results
    cfg_pc,         \* "find", "loop", "returned", "crashed"
    cfg_totals      \* the value returned: None or the totals dict

VARIABLES
    \* ---- one call of export_to_csv (analyze_kernel_time.py)
    baseline_totals, \* argument baseline_totals: None or a dict
    compute_totals,  \* argument compute_totals
    triton_totals,   \* argument triton_totals
    csv_stage,       \* the argument being filled in: 1 baseline, 2 compute, 3 triton
    csv_pc,          \* "args", "written", "nothing", "failed"
    csv_data         \* the rows handed to writer.writerows

VARIABLES
    \* ---- one run of main (analyze_kernel_time.py, analyze_ablation_kernel_time.py)
    main_script,     \* "kernel_time" or "ablation"
    dir_exists,      \* output_dir.exists()
    config_results,  \* what analyze_configuration returned, in the order of the calls
    main_pc,         \* "start", "analyze", "export", "exited"
    summary,         \* the ratio lines the summary printed
    main_exc,        \* the exception that left main, "none" if there is none
    exit_status,     \* the status of the process, -1 while it runs
    main_csv         \* the rows export_to_csv wrote

VARIABLES
    \* ---- one call of find_log_files
    fl_script,       \* "kernel_time" or "ablation"
    fl_cands,        \* possible_paths: what is on disk at each candidate path
    fl_pc,           \* "setup", "probe", "collect", "done"
    fl_probed,       \* the candidates whose exists() was called, in order
    config_path,     \* index of the chosen candidate, 0 for None
    log_files        \* the list returned

VARIABLES
    \* ---- one run of TestRunner.run_all_tests (runner.py)
    test_list,            \* self.test_list: the test_name of each entry
    selected_configs,     \* the keys of selected_configs, in order
    global_test_counter,  \* self.global_test_counter
    test_results,         \* self.test_results
    rn_pc,                \* "start", "ready", "running" (inside subprocess.run), "done",
                          \* "raised" (an exception left run_all_tests), "saved"
    rn_env,               \* position in selected_configs
    rn_test,              \* position in test_list
    rn_children,          \* the subprocesses alive, as <<rn_env, rn_test>>
    rn_runs,              \* what run_single_test returned, call after call
    results_csv           \* the rows save_results_csv wrote, header first

VARIABLES
    \* ---- the totals of one sequence of records and of a permutation of it
    sum_records,    \* the records, in the order they stand in the log files
    sum_split,      \* 0: one log file; k > 0: the first k records are one log file, the rest another
    sum_permuted,   \* the same records in the other order
    sum_totals,     \* the totals of sum_records
    sum_permuted_totals, \* the totals of sum_permuted
    sum_pc          \* "build", "done"

VARIABLES
    \* ---- one call of analyze_configuration (analyze_ablation_kernel_time.py)
    ab_log_files,   \* log_files, as find_log_files returned it
    ab_index,       \* number of log files the loop has gone through
    file_totals,    \* local file_totals
    ab_pc,          \* "find", "loop", "returned"
    ab_ret          \* the value returned: None or file_totals

VARIABLES
    \* ---- one test named by the runner and formatted by analyze_ablation_kernel_time.py
    fmt_repo,       \* test_info['repository']
    fmt_stem,       \* test_file.stem
    fmt_function,   \* test_info['test_function'], None for a whole file
    fmt_test_name,  \* test_info['test_name']
    fmt_log_name,   \* output_filename of run_single_test
    fmt_formatted,  \* format_test_name(base_name)
    fmt_pc          \* "discovered", "listed", "logged", "formatted"

VARIABLES
    \* ---- one call of AddressSanitizerRunner.run_single_test (run_address_sanitizer_amd.py)
    asan_environ,   \* os.environ when the script runs
    asan_env_key,   \* env_config_key
    asan_repo,      \* test_info['repository']
    asan_function,  \* test_info['test_function'], "" for None
    enable_memory,  \* self.enable_memory
    asan_env,       \* env, as handed to subprocess.run
    asan_cmd,       \* cmd, as handed to subprocess.run
    asan_status,    \* the status returned
    asan_pc         \* "start", "running" (inside subprocess.run), "returned"

VARIABLES
    \* ---- a log file written by run_single_test and read by parse_baseline_compute_sanitizer / parse_triton_sanitizer
    hd_repo,        \* test_info['repository']
    hd_stem,        \* test_info['test_file'].stem
    hd_function,    \* test_info['test_function']
    hd_number,      \* test_number
    hd_prefix,      \* env_config['command_prefix'] is set
    hd_child,       \* the lines the subprocess wrote
    hd_log,         \* the lines of the log file
    hd_pc           \* "start", "written"

VARIABLES
    \* ---- the logs of one kernel-timing run of runner.py, under output_dir
    ly_group,       \* the configuration group the runner was run with
    ly_config_name, \* config_name handed to find_log_files
    ly_written      \* the log files written, as [group, name, file]

VARIABLES
    \* ---- a second execution of export_to_csv on the same arguments
    csv_data_again, \* csv_data of the second execution
    csv_again_pc    \* "no", "written", "failed"

VARIABLES
    \* ---- one call of TestRunner.prepare_test_list (runner.py)
    pl_repositories,\* repositories
    pl_disk,        \* what discover_tests and discover_test_functions find, for each repository
    pl_whitelists,  \* whitelists, as [is_none, d]
    pl_test_list,   \* self.test_list
    pl_total_tests, \* self.total_tests
    pl_pc           \* "start", "prepared"

normVars == <<norm_in, norm_prev, norm_out, norm_calls>>

parseVars == <<is_triton_sanitizer, lines_read, test_name, test_number, results,
               parse_pc, parse_exc, parse_ret, totals>>

overheadVars == <<oh_row, oh_ratios, oh_n, oh_pc>>

configVars == <<cfg_triton, cfg_nfiles, cfg_parsed, all_results, cfg_pc, cfg_totals>>

csvVars == <<baseline_totals, compute_totals, triton_totals, csv_stage, csv_pc, csv_data>>

mainVars == <<main_script, dir_exists, config_results, main_pc, summary, main_exc,
              exit_status, main_csv>>

findVars == <<fl_script, fl_cands, fl_pc, fl_probed, config_path, log_files>>

runnerVars == <<test_list, selected_configs, global_test_counter, test_results, rn_pc,
                rn_env, rn_test, rn_children, rn_runs, results_csv>>

sumVars == <<sum_records, sum_split, sum_permuted, sum_totals, sum_permuted_totals, sum_pc>>

ablationVars == <<ab_log_files, ab_index, file_totals, ab_pc, ab_ret>>

formatVars == <<fmt_repo, fmt_stem, fmt_function, fmt_test_name, fmt_log_name, fmt_formatted, fmt_pc>>

asanVars == <<asan_environ, asan_env_key, asan_repo, asan_function, enable_memory, asan_env, asan_cmd, asan_status, asan_pc>>

headerVars == <<hd_repo, hd_stem, hd_function, hd_number, hd_prefix, hd_child, hd_log, hd_pc>>

layoutVars == <<ly_group, ly_config_name, ly_written>>

againVars == <<csv_data_again, csv_again_pc>>

prepareVars == <<pl_repositories, pl_disk, pl_whitelists, pl_test_list, pl_total_tests, pl_pc>>

vars == <<normVars, parseVars, overheadVars, configVars, csvVars, mainVars, findVars,
          runnerVars,
          sumVars, ablationVars, formatVars, asanVars, headerVars, layoutVars, againVars, prepareVars>>

\* the state outside each group of variables
exceptNorm == <<parseVars, overheadVars, configVars, csvVars, mainVars, findVars, runnerVars, sumVars, ablationVars, formatVars, asanVars, headerVars, layoutVars, againVars, prepareVars>>
exceptParse == <<normVars, overheadVars, configVars, csvVars, mainVars, findVars, runnerVars, sumVars, ablationVars, formatVars, asanVars, headerVars, layoutVars, againVars, prepareVars>>
exceptOverhead == <<normVars, parseVars, configVars, csvVars, mainVars, findVars, runnerVars, sumVars, ablationVars, formatVars, asanVars, headerVars, layoutVars, againVars, prepareVars>>
exceptConfig == <<normVars, parseVars, overheadVars, csvVars, mainVars, findVars, runnerVars, sumVars, ablationVars, formatVars, asanVars, headerVars, layoutVars, againVars, prepareVars>>
exceptCsv == <<normVars, parseVars, overheadVars, configVars, mainVars, findVars, runnerVars, sumVars, ablationVars, formatVars, asanVars, headerVars, layoutVars, againVars, prepareVars>>
exceptMain == <<normVars, parseVars, overheadVars, configVars, csvVars, findVars, runnerVars, sumVars, ablationVars, formatVars, asanVars, headerVars, layoutVars, againVars, prepareVars>>
exceptFind == <<normVars, parseVars, overheadVars, configVars, csvVars, mainVars, runnerVars, sumVars, ablationVars, formatVars, asanVars, headerVars, layoutVars, againVars, prepareVars>>
exceptRunner == <<normVars, parseVars, overheadVars, configVars, csvVars, mainVars, findVars, sumVars, ablationVars, formatVars, asanVars, headerVars, layoutVars, againVars, prepareVars>>
exceptSum == <<normVars, parseVars, overheadVars, configVars, csvVars, mainVars, findVars,
              runnerVars, ablationVars, formatVars, asanVars, headerVars, layoutVars, againVars, prepareVars>>
exceptAblation == <<normVars, parseVars, overheadVars, configVars, csvVars, mainVars, findVars,
                   runnerVars, sumVars, formatVars, asanVars, headerVars, layoutVars, againVars, prepareVars>>
exceptFormat == <<normVars, parseVars, overheadVars, configVars, csvVars, mainVars, findVars, runnerVars, sumVars, ablationVars, asanVars, headerVars, layoutVars, againVars, prepareVars>>
exceptAsan == <<normVars, parseVars, overheadVars, configVars, csvVars, mainVars, findVars, runnerVars, sumVars, ablationVars, formatVars, headerVars, layoutVars, againVars, prepareVars>>
exceptHeader == <<normVars, parseVars, overheadVars, configVars, csvVars, mainVars, findVars, runnerVars, sumVars, ablationVars, formatVars, asanVars, layoutVars, againVars, prepareVars>>
exceptHeaderParse == <<normVars, overheadVars, configVars, csvVars, mainVars, findVars, runnerVars, sumVars, ablationVars, formatVars, asanVars, layoutVars, againVars, prepareVars>>
exceptLayout == <<normVars, parseVars, overheadVars, configVars, csvVars, mainVars, findVars, runnerVars, sumVars, ablationVars, formatVars, asanVars, headerVars, againVars, prepareVars>>
exceptFindLayout == <<normVars, parseVars, overheadVars, configVars, csvVars, mainVars, runnerVars, sumVars, ablationVars, formatVars, asanVars, headerVars, againVars, prepareVars>>
exceptAgain == <<normVars, parseVars, overheadVars, configVars, csvVars, mainVars, findVars, runnerVars, sumVars, ablationVars, formatVars, asanVars, headerVars, layoutVars, prepareVars>>
exceptCsvAgain == <<normVars, parseVars, overheadVars, configVars, mainVars, findVars, runnerVars, sumVars, ablationVars, formatVars, asanVars, headerVars, layoutVars, prepareVars>>
exceptPrepare == <<normVars, parseVars, overheadVars, configVars, csvVars, mainVars, findVars, runnerVars, sumVars, ablationVars, formatVars, asanVars, headerVars, layoutVars, againVars>>

(***************************************************************************)
(* Text helpers                                                            *)
(***************************************************************************)
Digits == {"0", "1", "2", "3", "4", "5", "6", "7", "8", "9"}

IsDigit(c) == c \in Digits

DigitVal(c) ==
    CASE c = "0" -> 0 [] c = "1" -> 1 [] c = "2" -> 2 [] c = "3" -> 3
      [] c = "4" -> 4 [] c = "5" -> 5 [] c = "6" -> 6 [] c = "7" -> 7
      [] c = "8" -> 8 [] c = "9" -> 9

Take(s, n) == SubSeq(s, 1, n)

Drop(s, n) == SubSeq(s, n + 1, Len(s))

\* str.index / "in": position of the first occurrence of c in s, 0 if none
IndexOf(s, c) ==
    IF \E i \in 1..Len(s) : s[i] = c
    THEN CHOOSE i \in 1..Len(s) : s[i] = c /\ \A j \in 1..(i - 1) : s[j] # c
    ELSE 0

\* length of the longest run of digits s starts with (what ^\d+ matches)
DigitRun(s) ==
    IF \E i \in 1..Len(s) : ~IsDigit(s[i])
    THEN (CHOOSE i \in 1..Len(s) : ~IsDigit(s[i]) /\ \A j \in 1..(i - 1) : IsDigit(s[j])) - 1
    ELSE Len(s)

\* re.search(r'^(\d+)_', s): TRUE iff s starts with digits followed by "_"
HasNumberPrefix(s) ==
    LET n == DigitRun(s) IN n >= 1 /\ n < Len(s) /\ s[n + 1] = "_"

\* re.sub(r'^\d+_', '', s)
StripNumberPrefix(s) ==
    IF HasNumberPrefix(s) THEN Drop(s, DigitRun(s) + 1) ELSE s

\* the text before the first "[" (the whole text if there is none)
StripParams(s) ==
    IF IndexOf(s, "[") > 0 THEN Take(s, IndexOf(s, "[") - 1) ELSE s


\* a plausible slip: every leading "<digits>_" group is removed
RECURSIVE StripAllNumberPrefixes(_)
StripAllNumberPrefixes(s) ==
    IF HasNumberPrefix(s) THEN StripAllNumberPrefixes(StripNumberPrefix(s)) ELSE s

normalize_test_name_all_prefixes(ident) == StripAllNumberPrefixes(StripParams(ident))

\* a plausible slip: cut at the last "[" instead of the first
StripParamsAtLast(s) ==
    IF \E i \in 1..Len(s) : s[i] = "["
    THEN Take(s, (CHOOSE i \in 1..Len(s) : s[i] = "[" /\ \A j \in (i + 1)..Len(s) : s[j] # "[") - 1)
    ELSE s

normalize_test_name_lastbracket(ident) ==
    StripNumberPrefix(StripParamsAtLast(ident))

normalize_test_name(ident) ==
    StripNumberPrefix(StripParams(ident))

(***************************************************************************)
(* Python values                                                           *)
(***************************************************************************)
\* Python's None where a text may stand
None == <<"None">>

\* truth value of an optional text: None and "" are false
Truthy(s) == s # None /\ s # <<>>

\* float(text) for a text matched by [\d.]+ : raises ValueError unless the
\* text holds at least one digit and at most one "."
RECURSIVE CountChar(_, _)
CountChar(s, c) ==
    IF s = <<>> THEN 0
    ELSE (IF Head(s) = c THEN 1 ELSE 0) + CountChar(Tail(s), c)

FloatOk(text) ==
    /\ CountChar(text, ".") <= 1
    /\ \E i \in 1..Len(text) : IsDigit(text[i])

\* int(text) for a text of digits
RECURSIVE ToInt(_)
ToInt(digs) ==
    IF digs = <<>> THEN 0
    ELSE 10 * ToInt(Take(digs, Len(digs) - 1)) + DigitVal(digs[Len(digs)])

\* the value of float(text) in thousandths (texts carry at most three
\* fractional digits)
ToMilli(text) ==
    LET dot  == IndexOf(text, ".")
        ip   == IF dot = 0 THEN text ELSE Take(text, dot - 1)
        fp   == IF dot = 0 THEN <<>> ELSE Drop(text, dot)
        fp3  == Take(fp \o <<"0", "0", "0">>, 3)
    IN ToInt(ip) * 1000 + ToInt(fp3)

(***************************************************************************)
(* Python dicts: sequences of [k, v] entries in insertion order            *)
(***************************************************************************)
Keys(d) == {d[i].k : i \in 1..Len(d)}

HasKey(d, k) == \E i \in 1..Len(d) : d[i].k = k

Get(d, k) == d[CHOOSE i \in 1..Len(d) : d[i].k = k].v

\* d[k] = v
Put(d, k, v) ==
    IF HasKey(d, k)
    THEN [i \in 1..Len(d) |-> IF d[i].k = k THEN [k |-> k, v |-> v] ELSE d[i]]
    ELSE Append(d, [k |-> k, v |-> v])

\* defaultdict(list): d[k].append(x)
DictAppend(d, k, x) ==
    Put(d, k, (IF HasKey(d, k) THEN Get(d, k) ELSE <<>>) \o <<x>>)

\* defaultdict(list): d[k].extend(xs)
DictExtend(d, k, xs) ==
    Put(d, k, (IF HasKey(d, k) THEN Get(d, k) ELSE <<>>) \o xs)

RECURSIVE SumSeq(_)
SumSeq(s) == IF s = <<>> THEN 0 ELSE Head(s) + SumSeq(Tail(s))

(***************************************************************************)
(* Python floats (IEEE 754 binary64, round to nearest, ties to even).      *)
(* A float that is not negative is [e, m]: m holds the MantissaBits bits   *)
(* of its significand from the most significant one (m[1] = 1) and its     *)
(* value is m * 2^e; 0.0 is [e |-> 0, m |-> <<>>].  The times of the log   *)
(* files lie far from the overflow and the subnormal range.                *)
(***************************************************************************)
MantissaBits == 53

Zeros(n) == [i \in 1..n |-> 0]

FloatZero == [e |-> 0, m |-> <<>>]

\* bits without its leading zeros
StripZeros(bits) ==
    IF \A i \in 1..Len(bits) : bits[i] = 0 THEN <<>>
    ELSE Drop(bits, (CHOOSE i \in 1..Len(bits) :
                        bits[i] = 1 /\ \A j \in 1..(i - 1) : bits[j] = 0) - 1)

\* bits + 1
Increment(bits) ==
    IF \A i \in 1..Len(bits) : bits[i] = 1 THEN <<1>> \o Zeros(Len(bits))
    ELSE LET p == CHOOSE i \in 1..Len(bits) :
                      bits[i] = 0 /\ \A j \in (i + 1)..Len(bits) : bits[j] = 1
         IN Take(bits, p - 1) \o <<1>> \o Zeros(Len(bits) - p)

\* a + b + carry for two bit sequences of one length, one bit longer: the
\* low halves are added first and give the carry into the high halves
RECURSIVE AddBits(_, _, _)
AddBits(a, b, carry) ==
    IF a = <<>> THEN <<carry>>
    ELSE IF Len(a) = 1
         THEN <<(a[1] + b[1] + carry) \div 2, (a[1] + b[1] + carry) % 2>>
         ELSE LET h    == Len(a) \div 2
                  low  == AddBits(Drop(a, h), Drop(b, h), carry)
              IN (IF low[1] = 0 THEN AddBits(Take(a, h), Take(b, h), 0)
                  ELSE AddBits(Take(a, h), Take(b, h), 1)) \o Tail(low)

\* the number bits * 2^e has more significant bits than a float holds
Rounds(bits) ==
    LET sig == StripZeros(bits)
    IN \E i \in (MantissaBits + 1)..Len(sig) : sig[i] = 1

\* the float nearest to bits * 2^e, the even one of two equally near
RoundFloat(e, bits) ==
    LET sig == StripZeros(bits)
        n   == Len(sig)
    IN IF n = 0 THEN FloatZero
       ELSE IF n <= MantissaBits
            THEN [e |-> e - (MantissaBits - n), m |-> sig \o Zeros(MantissaBits - n)]
            ELSE LET keep   == Take(sig, MantissaBits)
                     rest   == Drop(sig, MantissaBits)
                     sticky == \E i \in 2..Len(rest) : rest[i] = 1
                     up     == Head(rest) = 1 /\ (sticky \/ keep[MantissaBits] = 1)
                     r      == IF up THEN Increment(keep) ELSE keep
                 IN IF Len(r) > MantissaBits
                    THEN [e |-> e + (n - MantissaBits) + 1, m |-> Take(r, MantissaBits)]
                    ELSE [e |-> e + (n - MantissaBits), m |-> r]

\* the exact sum of two floats, as [e, bits]
ExactSum(x, y) ==
    LET e == IF x.e < y.e THEN x.e ELSE y.e
        a == x.m \o Zeros(x.e - e)
        b == y.m \o Zeros(y.e - e)
        n == IF Len(a) > Len(b) THEN Len(a) ELSE Len(b)
    IN [e |-> e, bits |-> AddBits(Zeros(n - Len(a)) \o a, Zeros(n - Len(b)) \o b, 0)]

\* x + y
FloatAdd(x, y) ==
    IF x.m = <<>> THEN y
    ELSE IF y.m = <<>> THEN x
         ELSE LET exact == ExactSum(x, y) IN RoundFloat(exact.e, exact.bits)

\* the binary digits of a natural number, none for 0
RECURSIVE NatBits(_)
NatBits(n) == IF n = 0 THEN <<>> ELSE Append(NatBits(n \div 2), n % 2)

\* the ten binary digits of v < 1024
TenBits(v) == [i \in 1..10 |-> (v \div (2 ^ (10 - i))) % 2]

\* the first 10 * k binary digits of r / 1000 (r < 1000), then 1 if digits
\* other than 0 follow them and 0 if not
RECURSIVE FractionBits(_, _)
FractionBits(r, k) ==
    IF k = 0 THEN <<IF r = 0 THEN 0 ELSE 1>>
    ELSE TenBits((1024 * r) \div 1000) \o FractionBits((1024 * r) % 1000, k - 1)

\* float(text), from the value of the text in thousandths: the float nearest
\* to milli / 1000
float_value(milli) ==
    LET k == (MantissaBits + 17) \div 10
    IN RoundFloat(0 - (10 * k + 1),
                  NatBits(milli \div 1000) \o FractionBits(milli % 1000, k))

\* sum(m[time_key] for m in measurements): the additions from left to right,
\* each one rounded; acc starts as the int 0
RECURSIVE FloatSumFrom(_, _)
FloatSumFrom(acc, times) ==
    IF times = <<>> THEN acc
    ELSE FloatSumFrom(FloatAdd(acc, float_value(Head(times))), Tail(times))

float_sum(times) == FloatSumFrom(FloatZero, times)

\* some addition of the sum is rounded
RECURSIVE SumRoundsFrom(_, _)
SumRoundsFrom(acc, times) ==
    IF times = <<>> THEN FALSE
    ELSE LET x == float_value(Head(times))
         IN \/ (acc.m # <<>> /\ x.m # <<>> /\ Rounds(ExactSum(acc, x).bits))
            \/ SumRoundsFrom(FloatAdd(acc, x), Tail(times))

SumRounds(times) == SumRoundsFrom(FloatZero, times)

(***************************************************************************)
(* Log lines.  A line is what the regular expressions of the parsers see   *)
(* in it:                                                                  *)
(*   number  group(1) of 'Test Number:\s+(\d+)', or None                   *)
(*   name    group(1).strip() of 'Test:\s+(.+)', or None                   *)
(*   pytest  group(1) of '(test_\w+\.py::\S+)', or None                    *)
(*   segs    the "kernel=... gpu_time_ms=..." / "execution time for ..."   *)
(*           pieces of the line from left to right, each with the tag in   *)
(*           front of it: "liger" for [liger][triton], "profiler" for      *)
(*           [triton-profiler], "viz" for Triton-Viz:, "bare" for a        *)
(*           kernel=... piece with no tag; kernel and time are the texts   *)
(*           of the two groups.                                            *)
(***************************************************************************)
Seg(tag, kernel, time) == [tag |-> tag, kernel |-> kernel, time |-> time]

Line(number, name, pytest, segs) ==
    [number |-> number, name |-> name, pytest |-> pytest, segs |-> segs]

NoSeg == Seg("none", "", <<>>)

\* re.search of a metric pattern: the leftmost piece carrying the tag
FirstSeg(line, tag) ==
    IF \E i \in 1..Len(line.segs) : line.segs[i].tag = tag
    THEN line.segs[CHOOSE i \in 1..Len(line.segs) :
                      /\ line.segs[i].tag = tag
                      /\ \A j \in 1..(i - 1) : line.segs[j].tag # tag]
    ELSE NoSeg

\* a plausible slip: only pattern1 is tried
MetricMatchPattern1Only(triton, line) ==
    IF triton THEN FirstSeg(line, "viz") ELSE FirstSeg(line, "liger")

\* a plausible slip: pattern2 is tried first
MetricMatchPattern2First(triton, line) ==
    IF triton THEN FirstSeg(line, "viz")
    ELSE IF FirstSeg(line, "profiler") # NoSeg THEN FirstSeg(line, "profiler")
         ELSE FirstSeg(line, "liger")

\* match = re.search(pattern1, line); if not match: re.search(pattern2, line)
\* (parse_baseline_compute_sanitizer); re.search(pattern, line)
\* (parse_triton_sanitizer)
MetricMatch(triton, line) ==
    IF triton THEN FirstSeg(line, "viz")
    ELSE IF FirstSeg(line, "liger") # NoSeg THEN FirstSeg(line, "liger")
         ELSE FirstSeg(line, "profiler")

\* a plausible slip: the test of test_name is left out
RecordGuardNoName(match, tname) == match # NoSeg

\* "if match and test_name:"
RecordGuard(match, tname) == match # NoSeg /\ Truthy(tname)

\* test_number after the header tests of one line
NumberAfter(number, line) ==
    IF line.number # None THEN line.number ELSE number

\* a plausible slip: the pytest identifier is used only on a line without a
\* "Test:" header
NameAfterHeaderWins(tname, number, line) ==
    LET num == NumberAfter(number, line)
    IN IF line.name # None
       THEN IF Truthy(num) /\ Truthy(line.name) THEN num \o <<"_">> \o line.name
            ELSE line.name
       ELSE IF line.pytest # None THEN line.pytest ELSE tname

\* test_name after the header tests of one line
NameAfter(tname, number, line) ==
    LET num   == NumberAfter(number, line)
        named == IF line.name = None THEN tname
                 ELSE IF Truthy(num) /\ Truthy(line.name)
                      THEN num \o <<"_">> \o line.name
                      ELSE line.name
    IN IF line.pytest # None THEN line.pytest ELSE named

\* One iteration of "for line in f" on the locals st = [test_name,
\* test_number, results, exc]; exc becomes "ValueError" when float() raises.
ScanLine(triton, st, line) ==
    LET num   == NumberAfter(st.test_number, line)
        tname == NameAfter(st.test_name, st.test_number, line)
        match == MetricMatch(triton, line)
        hdr   == [st EXCEPT !.test_number = num, !.test_name = tname]
    IN IF RecordGuard(match, tname)
       THEN IF FloatOk(match.time)
            THEN [hdr EXCEPT !.results =
                     DictAppend(st.results, tname,
                                [kernel |-> match.kernel, time_ms |-> ToMilli(match.time)])]
            ELSE [hdr EXCEPT !.exc = "ValueError"]
       ELSE hdr

\* a plausible slip: only the missing file is handled
CaughtOnlyNotFound(exc) == exc = "FileNotFoundError"

\* the exceptions the two except clauses of a parse function handle:
\* "except FileNotFoundError" and "except Exception"
Caught(exc) ==
    exc = "FileNotFoundError" \/ exc \in {"OSError", "ValueError"}

\* what the call returns: results, or {} from either except clause
ParseReturn(exc, res) == IF exc = "none" THEN res ELSE <<>>

\* A log file on disk: status "ok", "missing" (open raises
\* FileNotFoundError), "unreadable" (open raises another OSError) or
\* "read_error" (reading raises an OSError); lines is its text.
LogFile(status, lines) == [status |-> status, lines |-> lines]

\* the locals after "for line in f" over lines, stopping where float() raises
RECURSIVE ScanAll(_, _, _)
ScanAll(triton, st, lines) ==
    IF lines = <<>> \/ st.exc # "none" THEN st
    ELSE ScanAll(triton, ScanLine(triton, st, Head(lines)), Tail(lines))

\* the exception raised inside the try block of a parse function, "none" if
\* there is none
ParseException(triton, file) ==
    CASE file.status = "missing" -> "FileNotFoundError"
      [] file.status \in {"unreadable", "read_error"} -> "OSError"
      [] OTHER -> ScanAll(triton,
                          [test_name |-> None, test_number |-> None,
                           results |-> <<>>, exc |-> "none"],
                          file.lines).exc

\* parse_triton_sanitizer(log_file) / parse_baseline_compute_sanitizer(log_file):
\* [ret, raised], raised being the exception that leaves the function
ParseFile(triton, file) ==
    LET exc == ParseException(triton, file)
        res == IF file.status = "ok"
               THEN ScanAll(triton,
                            [test_name |-> None, test_number |-> None,
                             results |-> <<>>, exc |-> "none"],
                            file.lines).results
               ELSE <<>>
    IN [ret |-> ParseReturn(exc, res),
        raised |-> IF exc = "none" \/ Caught(exc) THEN "none" ELSE exc]

\* a plausible slip: a test seen again replaces what was merged before
RECURSIVE MergeResultsOverwrite(_, _)
MergeResultsOverwrite(all, res) ==
    IF res = <<>> THEN all
    ELSE MergeResultsOverwrite(Put(all, Head(res).k, Head(res).v), Tail(res))

\* "for test_name, measurements in results.items():
\*      all_results[test_name].extend(measurements)"
RECURSIVE MergeResults(_, _)
MergeResults(all, res) ==
    IF res = <<>> THEN all
    ELSE MergeResults(DictExtend(all, Head(res).k, Head(res).v), Tail(res))

\* the totals loop at the end of analyze_configuration
ConfigTotals(all) ==
    [i \in 1..Len(all) |->
        [k |-> all[i].k,
         v |-> [total_ms |-> SumSeq([j \in 1..Len(all[i].v) |-> all[i].v[j].time_ms]),
                count |-> Len(all[i].v),
                measurements |-> all[i].v]]]

\* a value that is None or a dict
NoneDict == [is_none |-> TRUE, d |-> <<>>]

SomeDict(d) == [is_none |-> FALSE, d |-> d]

\* truth value of an optional dict: None and {} are false
DictTruthy(x) == ~x.is_none /\ x.d # <<>>

\* a plausible slip: every test is given count 1
calculate_totals_count1(res) ==
    [i \in 1..Len(res) |->
        [k |-> res[i].k,
         v |-> [total_ms |-> SumSeq([j \in 1..Len(res[i].v) |-> res[i].v[j].time_ms]),
                count |-> 1]]]

\* calculate_totals, and the same loop at the end of analyze_configuration
calculate_totals(res) ==
    [i \in 1..Len(res) |->
        [k |-> res[i].k,
         v |-> [total_ms |-> SumSeq([j \in 1..Len(res[i].v) |-> res[i].v[j].time_ms]),
                count |-> Len(res[i].v)]]]

(***************************************************************************)
(* SpecNorm: normalize_test_name on every identifier up to MaxNameLen      *)
(* characters over NameChars, applied to an identifier and then to its     *)
(* own result.                                                             *)
(***************************************************************************)
MaxNameLen == 5

NameChars == {"0", "1", "_", "a", "["}

RECURSIVE SeqsUpTo(_, _)
SeqsUpTo(S, n) ==
    IF n = 0 THEN {<<>>}
    ELSE LET shorter == SeqsUpTo(S, n - 1)
         IN shorter \cup {Append(s, c) : s \in {t \in shorter : Len(t) = n - 1}, c \in S}

\* the part of the state a specification does not use stays at its idle value
IdleNorm ==
    /\ norm_in = <<>>
    /\ norm_prev = <<>>
    /\ norm_out = <<>>
    /\ norm_calls = 0

IdleParse ==
    /\ is_triton_sanitizer = FALSE
    /\ lines_read = <<>>
    /\ test_name = None
    /\ test_number = None
    /\ results = <<>>
    /\ parse_pc = "idle"
    /\ parse_exc = "none"
    /\ parse_ret = <<>>
    /\ totals = <<>>

IdleOverhead ==
    /\ oh_row = [sanitizer |-> <<>>, baseline |-> <<>>]
    /\ oh_ratios = <<>>
    /\ oh_n = 0
    /\ oh_pc = "idle"

IdleConfig ==
    /\ cfg_triton = FALSE
    /\ cfg_nfiles = 0
    /\ cfg_parsed = <<>>
    /\ all_results = <<>>
    /\ cfg_pc = "idle"
    /\ cfg_totals = NoneDict

IdleCsv ==
    /\ baseline_totals = NoneDict
    /\ compute_totals = NoneDict
    /\ triton_totals = NoneDict
    /\ csv_stage = 0
    /\ csv_pc = "idle"
    /\ csv_data = <<>>

IdleMain ==
    /\ main_script = "none"
    /\ dir_exists = FALSE
    /\ config_results = <<>>
    /\ main_pc = "idle"
    /\ summary = <<>>
    /\ main_exc = "none"
    /\ exit_status = -1
    /\ main_csv = <<>>

IdleFind ==
    /\ fl_script = "none"
    /\ fl_cands = <<>>
    /\ fl_pc = "idle"
    /\ fl_probed = <<>>
    /\ config_path = 0
    /\ log_files = <<>>

IdleRunner ==
    /\ test_list = <<>>
    /\ selected_configs = <<>>
    /\ global_test_counter = 0
    /\ test_results = <<>>
    /\ rn_pc = "idle"
    /\ rn_env = 0
    /\ rn_test = 0
    /\ rn_children = {}
    /\ rn_runs = <<>>
    /\ results_csv = <<>>

IdleSum ==
    /\ sum_records = <<>>
    /\ sum_split = 0
    /\ sum_permuted = <<>>
    /\ sum_totals = <<>>
    /\ sum_permuted_totals = <<>>
    /\ sum_pc = "idle"

IdleAblation ==
    /\ ab_log_files = <<>>
    /\ ab_index = 0
    /\ file_totals = <<>>
    /\ ab_pc = "idle"
    /\ ab_ret = NoneDict

IdleFormat ==
    /\ fmt_repo = <<>>
    /\ fmt_stem = <<>>
    /\ fmt_function = None
    /\ fmt_test_name = <<>>
    /\ fmt_log_name = <<>>
    /\ fmt_formatted = <<>>
    /\ fmt_pc = "idle"

IdleAsan ==
    /\ asan_environ = <<>>
    /\ asan_env_key = ""
    /\ asan_repo = ""
    /\ asan_function = ""
    /\ enable_memory = FALSE
    /\ asan_env = <<>>
    /\ asan_cmd = <<>>
    /\ asan_status = ""
    /\ asan_pc = "idle"

IdleHeader ==
    /\ hd_repo = <<>>
    /\ hd_stem = <<>>
    /\ hd_function = None
    /\ hd_number = <<>>
    /\ hd_prefix = FALSE
    /\ hd_child = <<>>
    /\ hd_log = <<>>
    /\ hd_pc = "idle"

IdleLayout ==
    /\ ly_group = ""
    /\ ly_config_name = ""
    /\ ly_written = {}

IdleAgain ==
    /\ csv_data_again = <<>>
    /\ csv_again_pc = "no"

IdlePrepare ==
    /\ pl_repositories = <<>>
    /\ pl_disk = <<>>
    /\ pl_whitelists = NoneDict
    /\ pl_test_list = <<>>
    /\ pl_total_tests = 0
    /\ pl_pc = "idle"

InitNorm ==
    /\ norm_in \in SeqsUpTo(NameChars, MaxNameLen)
    /\ norm_prev = norm_in
    /\ norm_out = norm_in
    /\ norm_calls = 0
    /\ IdleParse /\ IdleOverhead /\ IdleConfig /\ IdleCsv /\ IdleMain /\ IdleFind /\ IdleRunner /\ IdleSum /\ IdleAblation /\ IdleFormat /\ IdleAsan /\ IdleHeader /\ IdleLayout /\ IdleAgain /\ IdlePrepare

Normalize ==
    /\ norm_calls < 2
    /\ norm_prev' = norm_out
    /\ norm_out' = normalize_test_name(norm_out)
    /\ norm_calls' = norm_calls + 1
    /\ UNCHANGED <<norm_in, exceptNorm>>

NextNorm == Normalize

SpecNorm == InitNorm /\ [][NextNorm]_vars

\* number of leading "<digits>_" groups of s
RECURSIVE LeadingGroups(_)
LeadingGroups(s) ==
    IF HasNumberPrefix(s) THEN 1 + LeadingGroups(StripNumberPrefix(s)) ELSE 0

\* C2 (as stated): normalize_test_name is idempotent on every identifier,
\* identifiers with several leading "<digits>_" groups included: the second
\* call returns what the first returned.
C2_Idempotent ==
    norm_calls = 2 => norm_out = norm_prev

\* C2 (amended): normalize_test_name is idempotent on every identifier whose
\* text before the first "[" starts with at most one "<digits>_" group; with
\* two or more groups each call removes one more group.
C2_IdempotentOnePrefix ==
    norm_calls = 2 =>
        IF LeadingGroups(StripParams(norm_in)) <= 1
        THEN norm_out = norm_prev
        ELSE norm_out # norm_prev /\ norm_out = StripNumberPrefix(norm_prev)

\* the second call has been made on an identifier with a numeric prefix and a
\* parametrization, and both were removed by the first call
C2_Witness ==
    /\ norm_calls = 2
    /\ HasNumberPrefix(norm_in)
    /\ IndexOf(norm_in, "[") > 0
    /\ LeadingGroups(StripParams(norm_in)) = 1
    /\ norm_out = norm_prev
    /\ Len(norm_out) > 0

(***************************************************************************)
(* SpecParse: one call of a parse function on a log file of up to MaxLines *)
(* lines drawn from LineAlphabet, followed by calculate_totals.            *)
(***************************************************************************)
MaxLines == 3

N01 == <<"0", "1">>
NameA == <<"a">>
PyId == <<"t", ":", ":", "f", "[", "p", "]">>
PyId2 == <<"t", ":", ":", "g">>
T25 == <<"2", ".", "5">>
T35 == <<"3", ".", "5">>
T20 == <<"2", ".", "0">>
TBad == <<"1", ".", "2", ".", "3">>

LineAlphabet ==
    { Line(N01, None, None, <<>>),                             \* Test Number: 01
      Line(None, NameA, None, <<>>),                           \* Test: a
      Line(None, None, PyId, <<>>),                            \* ... t::f[p]
      Line(None, None, None, <<>>),                            \* a line no pattern matches
      Line(None, None, None, <<Seg("liger", "k1", T25)>>),     \* [liger][triton] kernel=k1 ... gpu_time_ms=2.5
      Line(None, None, None, <<Seg("profiler", "k2", T35)>>),  \* [triton-profiler] kernel=k2 ... gpu_time_ms=3.5
      Line(None, None, None, <<Seg("bare", "k1", T25)>>),      \* kernel=k1 cpu_launch_ms=1.0 gpu_time_ms=2.5
      Line(None, None, None, <<Seg("viz", "k1", T20)>>),       \* Triton-Viz: execution time for k1: 2.0 ms
      Line(None, None, None, <<Seg("liger", "k1", TBad)>>),    \* [liger][triton] ... gpu_time_ms=1.2.3
      Line(None, None, None, <<Seg("viz", "k1", TBad)>>),      \* Triton-Viz: execution time for k1: 1.2.3 ms
      Line(None, None, PyId2, <<Seg("liger", "k2", T35)>>),    \* t::g [liger][triton] kernel=k2 ... gpu_time_ms=3.5
      Line(None, None, None,                                   \* [triton-profiler] kernel=k2 ... gpu_time_ms=3.5
           <<Seg("profiler", "k2", T35), Seg("liger", "k1", T25)>>) }  \* [liger][triton] kernel=k1 ... gpu_time_ms=2.5

InitParse ==
    /\ is_triton_sanitizer \in BOOLEAN
    /\ lines_read = <<>>
    /\ test_name = None
    /\ test_number = None
    /\ results = <<>>
    /\ parse_pc = "open"
    /\ parse_exc = "none"
    /\ parse_ret = <<>>
    /\ totals = <<>>
    /\ IdleNorm /\ IdleOverhead /\ IdleConfig /\ IdleCsv /\ IdleMain /\ IdleFind /\ IdleRunner /\ IdleSum /\ IdleAblation /\ IdleFormat /\ IdleAsan /\ IdleHeader /\ IdleLayout /\ IdleAgain /\ IdlePrepare


\* open() succeeds
OpenOk ==
    /\ parse_pc = "open"
    /\ parse_pc' = "scan"
    /\ UNCHANGED <<is_triton_sanitizer, lines_read, test_name, test_number, results,
                   parse_exc, parse_ret, totals, exceptParse>>

\* open() raises: FileNotFoundError, or another exception (a directory, no
\* permission); either except clause returns {}
OpenFails(exc) ==
    /\ parse_pc = "open"
    /\ parse_exc' = exc
    /\ parse_ret' = ParseReturn(exc, results)
    /\ parse_pc' = IF Caught(exc) THEN "returned" ELSE "raised"
    /\ UNCHANGED <<is_triton_sanitizer, lines_read, test_name, test_number, results,
                   totals, exceptParse>>

\* one iteration of "for line in f"; a ValueError of float() leaves the loop
\* through "except Exception"
ReadLine(line) ==
    /\ parse_pc = "scan"
    /\ Len(lines_read) < MaxLines
    /\ LET st == ScanLine(is_triton_sanitizer,
                          [test_name |-> test_name, test_number |-> test_number,
                           results |-> results, exc |-> "none"],
                          line)
       IN /\ lines_read' = Append(lines_read, line)
          /\ test_name' = st.test_name
          /\ test_number' = st.test_number
          /\ results' = st.results
          /\ parse_exc' = st.exc
          /\ IF st.exc = "none"
             THEN UNCHANGED <<parse_pc, parse_ret>>
             ELSE /\ parse_pc' = IF Caught(st.exc) THEN "returned" ELSE "raised"
                  /\ parse_ret' = ParseReturn(st.exc, st.results)
    /\ UNCHANGED <<is_triton_sanitizer, totals, exceptParse>>

\* reading the next line raises (an I/O error)
ReadFails ==
    /\ parse_pc = "scan"
    /\ parse_exc' = "OSError"
    /\ parse_ret' = ParseReturn("OSError", results)
    /\ parse_pc' = IF Caught("OSError") THEN "returned" ELSE "raised"
    /\ UNCHANGED <<is_triton_sanitizer, lines_read, test_name, test_number, results,
                   totals, exceptParse>>

\* the file is exhausted: return results
EndOfFile ==
    /\ parse_pc = "scan"
    /\ parse_ret' = ParseReturn("none", results)
    /\ parse_pc' = "returned"
    /\ UNCHANGED <<is_triton_sanitizer, lines_read, test_name, test_number, results,
                   parse_exc, totals, exceptParse>>

\* calculate_totals(parse_ret)
CalculateTotals ==
    /\ parse_pc = "returned"
    /\ totals' = calculate_totals(parse_ret)
    /\ parse_pc' = "totalled"
    /\ UNCHANGED <<is_triton_sanitizer, lines_read, test_name, test_number, results,
                   parse_exc, parse_ret, exceptParse>>

NextParse ==
    \/ OpenOk
    \/ \E exc \in {"FileNotFoundError", "OSError"} : OpenFails(exc)
    \/ \E line \in LineAlphabet : ReadLine(line)
    \/ ReadFails
    \/ EndOfFile
    \/ CalculateTotals

SpecParse == InitParse /\ [][NextParse]_vars

\* C1 (as stated): a metric line whose numeric text float() rejects is the
\* only line lost: the records of the well-formed metric lines read before
\* it (held in results when float() raises) are still returned.
C1_MalformedLineSkipped ==
    (parse_pc \in {"returned", "totalled"} /\ parse_exc = "ValueError")
        => parse_ret = results

\* the shape of log C6 is about: a test header, then kernel-timing lines
\* with well-formed numbers whose tag is one of tags
IsHeaderLine(l) ==
    l.segs = <<>> /\ l.number = None /\ (l.name # None \/ l.pytest # None)

IsKernelLine(l, tags) ==
    /\ l.number = None /\ l.name = None /\ l.pytest = None
    /\ Len(l.segs) = 1
    /\ l.segs[1].tag \in tags
    /\ FloatOk(l.segs[1].time)

HeaderThenKernelLines(tags) ==
    /\ Len(lines_read) >= 2
    /\ IsHeaderLine(lines_read[1])
    /\ \A i \in 2..Len(lines_read) : IsKernelLine(lines_read[i], tags)

\* the totals C6 expects: the sum of the gpu_time_ms values and the number
\* of kernel-timing lines, under the header's identifier
SumOfLines ==
    <<[k |-> NameAfter(None, None, lines_read[1]),
       v |-> [total_ms |-> SumSeq([i \in 1..(Len(lines_read) - 1) |->
                                      ToMilli(lines_read[i + 1].segs[1].time)]),
              count |-> Len(lines_read) - 1]]>>

\* C6 (as stated): for a header followed by lines of the form
\* 'kernel=<name> cpu_launch_ms=<f> gpu_time_ms=<f>' (with or without a tag
\* in front), parse_baseline_compute_sanitizer followed by calculate_totals
\* gives the sum of the values and the number of lines.
C6_KernelLinesSummed ==
    (/\ parse_pc = "totalled" /\ parse_exc = "none" /\ ~is_triton_sanitizer
     /\ HeaderThenKernelLines({"bare", "liger", "profiler"}))
        => totals = SumOfLines

\* C6 (amended): the same for lines that carry the '[liger][triton]' or the
\* '[triton-profiler]' tag in front of 'kernel=...'; a line without the tag
\* matches neither pattern and adds nothing.
C6_TaggedLinesSummed ==
    (/\ parse_pc = "totalled" /\ parse_exc = "none" /\ ~is_triton_sanitizer
     /\ HeaderThenKernelLines({"liger", "profiler"}))
        => totals = SumOfLines

\* 'Test: a', then kernel=k1 ... gpu_time_ms=2.5 and kernel=k2 ...
\* gpu_time_ms=3.5 (tagged): total 6.0 ms, count 2
C6_Witness ==
    /\ parse_pc = "totalled"
    /\ ~is_triton_sanitizer
    /\ lines_read = << Line(None, NameA, None, <<>>),
                       Line(None, None, None, <<Seg("liger", "k1", T25)>>),
                       Line(None, None, None, <<Seg("profiler", "k2", T35)>>) >>
    /\ totals = <<[k |-> NameA, v |-> [total_ms |-> 6000, count |-> 2]]>>

\* the records the metric pieces of a line can give
LineRecords(l) ==
    {[kernel |-> l.segs[i].kernel, time_ms |-> ToMilli(l.segs[i].time)] :
        i \in {j \in 1..Len(l.segs) : FloatOk(l.segs[j].time)}}

\* C8: at every line of the scan, a record is added only if the current test
\* identifier is set, and it is added under the identifier current at that
\* line; while no identifier has been seen, results stays empty.
C8_RecordNeedsIdentifier ==
    [][parse_pc = "scan" =>
          /\ (~Truthy(test_name') => results' = results /\ results = <<>>)
          /\ (results' # results =>
                 /\ Truthy(test_name')
                 /\ \E rec \in LineRecords(lines_read'[Len(lines_read')]) :
                       results' = DictAppend(results, test_name', rec))]_vars

\* a metric line was read before any identifier and gave no record; a later
\* metric line, after the header 'Test: a', gave the only record
C8_Witness ==
    /\ parse_pc = "scan"
    /\ ~is_triton_sanitizer
    /\ Len(lines_read) = 3
    /\ MetricMatch(FALSE, lines_read[1]) # NoSeg
    /\ lines_read[2] = Line(None, NameA, None, <<>>)
    /\ results = <<[k |-> NameA, v |-> <<[kernel |-> "k1", time_ms |-> 2500]>>]>>

(***************************************************************************)
(* calculate_overhead (calculate_end_to_end_overhead.py) and               *)
(* calculate_kernel_overhead (calculate_kernel_only_overhead.py): the two  *)
(* functions are the same text.  A ratio sanitizer/baseline is kept as the *)
(* pair [num, den] of the two values in thousandths.                       *)
(***************************************************************************)
FAILED == <<"F", "A", "I", "L", "E", "D">>

BlockTensor ==
    <<"B", "l", "o", "c", "k", " ", "T", "e", "n", "s", "o", "r", " ",
      "N", "o", "t", " ", "S", "u", "p", "p", "o", "r", "t", "e", "d">>

\* str.strip() (blanks are the only whitespace of the model's cells)
RECURSIVE LStrip(_)
LStrip(s) == IF s # <<>> /\ Head(s) = " " THEN LStrip(Tail(s)) ELSE s

RECURSIVE RStrip(_)
RStrip(s) ==
    IF s # <<>> /\ s[Len(s)] = " " THEN RStrip(Take(s, Len(s) - 1)) ELSE s

Strip(s) == RStrip(LStrip(s))

\* sub in s
Contains(s, sub) ==
    \E i \in 0..(Len(s) - Len(sub)) : SubSeq(s, i + 1, i + Len(sub)) = sub

\* float(cell) does not raise ValueError (the cells of the model hold no
\* sign, exponent, "nan" or "inf": a text float() accepts is digits with at
\* most one ".")
CellFloatOk(text) ==
    /\ \A i \in 1..Len(text) : IsDigit(text[i]) \/ text[i] = "."
    /\ FloatOk(text)

\* "Skip if either value is FAILED, empty, or invalid"
SkipMarker(sanitizer_val, baseline_val) ==
    \/ sanitizer_val = <<>> \/ baseline_val = <<>>
    \/ sanitizer_val = FAILED \/ baseline_val = FAILED
    \/ Contains(sanitizer_val, BlockTensor) \/ Contains(baseline_val, BlockTensor)

\* a plausible slip: only a negative baseline is refused
DivisionGuardNonNegative(sanitizer_ms, baseline_ms) == baseline_ms >= 0

\* a plausible slip: a zero on either side is refused
DivisionGuardBothPositive(sanitizer_ms, baseline_ms) ==
    baseline_ms > 0 /\ sanitizer_ms > 0

\* "if baseline_val > 0:  # Avoid division by zero"
DivisionGuard(sanitizer_ms, baseline_ms) == baseline_ms > 0

\* the body of "for row in data": ratios after the row
RatioStep(ratios, row) ==
    LET sanitizer_val == Strip(row.sanitizer)
        baseline_val  == Strip(row.baseline)
    IN IF SkipMarker(sanitizer_val, baseline_val) THEN ratios
       ELSE IF ~CellFloatOk(sanitizer_val) \/ ~CellFloatOk(baseline_val)
            THEN ratios                          \* except (ValueError, TypeError): continue
            ELSE IF DivisionGuard(ToMilli(sanitizer_val), ToMilli(baseline_val))
                 THEN Append(ratios, [num |-> ToMilli(sanitizer_val),
                                      den |-> ToMilli(baseline_val)])
                 ELSE ratios

(***************************************************************************)
(* SpecOverhead: calculate_overhead over up to MaxRows rows whose two      *)
(* cells are drawn from Cells.                                             *)
(***************************************************************************)
MaxRows == 3

Cells ==
    { <<>>,                                  \* empty cell
      FAILED,
      FAILED \o <<" ">>,                     \* "FAILED "
      BlockTensor,
      <<"a", "b", "c">>,                     \* not a number
      <<"0", ".", "0", "0", "0">>,           \* 0.000
      <<"0">>,
      <<"2", ".", "5">>,
      <<" ", "1", "0", ".", "0">> }          \* " 10.0"

InitOverhead ==
    /\ oh_row = [sanitizer |-> <<>>, baseline |-> <<>>]
    /\ oh_ratios = <<>>
    /\ oh_n = 0
    /\ oh_pc = "loop"
    /\ IdleNorm /\ IdleParse /\ IdleConfig /\ IdleCsv /\ IdleMain /\ IdleFind /\ IdleRunner /\ IdleSum /\ IdleAblation /\ IdleFormat /\ IdleAsan /\ IdleHeader /\ IdleLayout /\ IdleAgain /\ IdlePrepare

\* one iteration of "for row in data"
NextRow(row) ==
    /\ oh_pc = "loop"
    /\ oh_n < MaxRows
    /\ oh_row' = row
    /\ oh_ratios' = RatioStep(oh_ratios, row)
    /\ oh_n' = oh_n + 1
    /\ UNCHANGED <<oh_pc, exceptOverhead>>

\* "return ratios"
ReturnRatios ==
    /\ oh_pc = "loop"
    /\ oh_pc' = "returned"
    /\ UNCHANGED <<oh_row, oh_ratios, oh_n, exceptOverhead>>

NextOverhead ==
    \/ \E s \in Cells, b \in Cells : NextRow([sanitizer |-> s, baseline |-> b])
    \/ ReturnRatios

SpecOverhead == InitOverhead /\ [][NextOverhead]_vars

\* a cell that is the failure marker or a number equal to zero
ZeroOrFailed(cell) ==
    Strip(cell) = FAILED \/ (CellFloatOk(Strip(cell)) /\ ToMilli(Strip(cell)) = 0)

\* C5 (as stated): no ratio is appended for a row whose sanitizer cell or
\* whose baseline cell is 0 or FAILED.
C5_ZeroOrFailedSkipped ==
    [][(oh_n' = oh_n + 1 /\ (ZeroOrFailed(oh_row'.sanitizer) \/ ZeroOrFailed(oh_row'.baseline)))
          => oh_ratios' = oh_ratios]_vars

\* a cell that gives no number: empty, FAILED, holding 'Block Tensor Not
\* Supported', or refused by float()
NoNumber(cell) ==
    \/ Strip(cell) = <<>>
    \/ Strip(cell) = FAILED
    \/ Contains(cell, BlockTensor)
    \/ ~CellFloatOk(Strip(cell))

\* C5 (amended): a row is skipped exactly when one of its two cells gives no
\* number or its baseline value is not above 0; every other row, a row with
\* sanitizer value 0 and a positive baseline included, appends
\* sanitizer/baseline (0 for a zero sanitizer value).
C5_SkippedIffNoNumberOrBaselineZero ==
    [][oh_n' = oh_n + 1 =>
          oh_ratios' =
              IF \/ NoNumber(oh_row'.sanitizer) \/ NoNumber(oh_row'.baseline)
                 \/ ToMilli(Strip(oh_row'.baseline)) <= 0
              THEN oh_ratios
              ELSE Append(oh_ratios, [num |-> ToMilli(Strip(oh_row'.sanitizer)),
                                      den |-> ToMilli(Strip(oh_row'.baseline))])]_vars

\* a row with sanitizer 0.000 over baseline 2.5 has appended the ratio 0,
\* after a row with a FAILED cell that appended nothing
C5_Witness ==
    /\ oh_n = 2
    /\ oh_row = [sanitizer |-> <<"0", ".", "0", "0", "0">>, baseline |-> <<"2", ".", "5">>]
    /\ oh_ratios = <<[num |-> 0, den |-> 2500]>>

(***************************************************************************)
(* SpecConfig: analyze_configuration (analyze_kernel_time.py) over up to   *)
(* MaxFiles log files drawn from SampleFiles.                              *)
(***************************************************************************)
MaxFiles == 3

NameB == <<"b">>

LineTestA == Line(None, NameA, None, <<>>)
LineTestB == Line(None, NameB, None, <<>>)
LineLiger25 == Line(None, None, None, <<Seg("liger", "k1", T25)>>)
LineProfiler35 == Line(None, None, None, <<Seg("profiler", "k2", T35)>>)
LineViz20 == Line(None, None, None, <<Seg("viz", "k1", T20)>>)
LineLigerBad == Line(None, None, None, <<Seg("liger", "k1", TBad)>>)

SampleFiles ==
    { LogFile("ok", <<>>),
      LogFile("ok", <<LineTestA, LineLiger25>>),
      LogFile("ok", <<LineTestA, LineLiger25, LineProfiler35>>),
      LogFile("ok", <<LineTestB, LineProfiler35>>),
      LogFile("ok", <<LineTestB, LineLiger25, LineTestA, LineProfiler35>>),
      LogFile("ok", <<LineLiger25>>),
      LogFile("ok", <<LineTestA, LineLiger25, LineLigerBad>>),
      LogFile("ok", <<LineTestA, LineViz20>>),
      LogFile("ok", <<LineTestB, LineViz20, LineTestA, LineViz20>>),
      LogFile("missing", <<>>),
      LogFile("unreadable", <<LineTestA, LineLiger25>>),
      LogFile("read_error", <<LineTestA, LineLiger25>>) }

InitConfig ==
    /\ cfg_triton \in BOOLEAN
    /\ cfg_nfiles = 0
    /\ cfg_parsed = <<>>
    /\ all_results = <<>>
    /\ cfg_pc = "find"
    /\ cfg_totals = NoneDict
    /\ IdleNorm /\ IdleParse /\ IdleOverhead /\ IdleCsv /\ IdleMain /\ IdleFind /\ IdleRunner /\ IdleSum /\ IdleAblation /\ IdleFormat /\ IdleAsan /\ IdleHeader /\ IdleLayout /\ IdleAgain /\ IdlePrepare

\* log_files = find_log_files(...); "if not log_files: return None"
FindLogFiles(n) ==
    /\ cfg_pc = "find"
    /\ cfg_nfiles' = n
    /\ cfg_pc' = IF n = 0 THEN "returned" ELSE "loop"
    /\ UNCHANGED <<cfg_triton, cfg_parsed, all_results, cfg_totals, exceptConfig>>

\* one iteration of "for log_file in log_files": parse, then merge
ParseLogFile(file) ==
    /\ cfg_pc = "loop"
    /\ Len(cfg_parsed) < cfg_nfiles
    /\ cfg_parsed' = Append(cfg_parsed, file)
    /\ LET out == ParseFile(cfg_triton, file)
       IN IF out.raised = "none"
          THEN /\ all_results' = MergeResults(all_results, out.ret)
               /\ UNCHANGED cfg_pc
          ELSE /\ cfg_pc' = "crashed"
               /\ UNCHANGED all_results
    /\ UNCHANGED <<cfg_triton, cfg_nfiles, cfg_totals, exceptConfig>>

\* the totals loop and "return totals"
ReturnTotals ==
    /\ cfg_pc = "loop"
    /\ Len(cfg_parsed) = cfg_nfiles
    /\ cfg_totals' = SomeDict(ConfigTotals(all_results))
    /\ cfg_pc' = "returned"
    /\ UNCHANGED <<cfg_triton, cfg_nfiles, cfg_parsed, all_results, exceptConfig>>

NextConfig ==
    \/ \E n \in 0..MaxFiles : FindLogFiles(n)
    \/ \E file \in SampleFiles : ParseLogFile(file)
    \/ ReturnTotals

SpecConfig == InitConfig /\ [][NextConfig]_vars

\* the times of the records file i of the call gave for identifier id
TimesIn(i, id) ==
    LET ret == ParseFile(cfg_triton, cfg_parsed[i]).ret
    IN IF HasKey(ret, id)
       THEN [j \in 1..Len(Get(ret, id)) |-> Get(ret, id)[j].time_ms]
       ELSE <<>>

RECURSIVE TimesUpTo(_, _)
TimesUpTo(n, id) ==
    IF n = 0 THEN <<>> ELSE TimesUpTo(n - 1, id) \o TimesIn(n, id)

ParsedIds ==
    UNION {Keys(ParseFile(cfg_triton, cfg_parsed[i]).ret) : i \in 1..Len(cfg_parsed)}

\* C9: analyze_configuration reports, for every identifier, the sum and the
\* count of all the records the parse function returned for it over all the
\* log files, and nothing else; log files that give no record give {}.
C9_SumOverAllFiles ==
    (cfg_pc = "returned" /\ cfg_nfiles > 0) =>
        /\ ~cfg_totals.is_none
        /\ Keys(cfg_totals.d) = ParsedIds
        /\ \A id \in ParsedIds :
              /\ Get(cfg_totals.d, id).total_ms = SumSeq(TimesUpTo(Len(cfg_parsed), id))
              /\ Get(cfg_totals.d, id).count = Len(TimesUpTo(Len(cfg_parsed), id))
        /\ (ParsedIds = {} => cfg_totals = SomeDict(<<>>))

\* three files were parsed, two of them with records for 'a' (one and two
\* records): 'a' is reported with 2.5 + 2.5 + 3.5 ms and count 3
C9_Witness ==
    /\ cfg_pc = "returned"
    /\ Len(cfg_parsed) = 3
    /\ Len(TimesIn(1, NameA)) = 1
    /\ Len(TimesIn(3, NameA)) = 2
    /\ Get(cfg_totals.d, NameA).total_ms = 8500
    /\ Get(cfg_totals.d, NameA).count = 3

\* C10: a log file that is missing or cannot be opened or read gives an
\* empty result and no exception leaves the parse function; the records of
\* the other files of the call are all in the totals returned.
C10_FailedFileIsEmpty ==
    /\ cfg_pc # "crashed"
    /\ \A i \in 1..Len(cfg_parsed) :
          cfg_parsed[i].status # "ok" =>
              ParseFile(cfg_triton, cfg_parsed[i]) = [ret |-> <<>>, raised |-> "none"]
    /\ (cfg_pc = "returned" /\ cfg_nfiles > 0) =>
          \A i \in 1..Len(cfg_parsed) : \A id \in Keys(ParseFile(cfg_triton, cfg_parsed[i]).ret) :
              /\ HasKey(cfg_totals.d, id)
              /\ Get(cfg_totals.d, id).count >= Len(TimesIn(i, id))

\* a missing file and a file whose read fails were gone through, and the
\* record of the third file is in the totals
C10_Witness ==
    /\ cfg_pc = "returned"
    /\ Len(cfg_parsed) = 3
    /\ cfg_parsed[1].status = "missing"
    /\ cfg_parsed[2].status = "read_error"
    /\ cfg_parsed[3].status = "ok"
    /\ cfg_totals.d # <<>>
    /\ Get(cfg_totals.d, cfg_totals.d[1].k).count = 1

(***************************************************************************)
(* export_to_csv of analyze_kernel_time.py                                 *)
(***************************************************************************)
\* str(n) for a natural number
RECURSIVE NatText(_)
NatText(n) ==
    LET d == <<"0", "1", "2", "3", "4", "5", "6", "7", "8", "9">>
    IN IF n < 10 THEN <<d[n + 1]>> ELSE Append(NatText(n \div 10), d[(n % 10) + 1])

\* f"{x:.3f}" for a time held in thousandths
Format3(milli) ==
    LET frac == NatText(milli % 1000)
        pad  == SubSeq(<<"0", "0">>, 1, 3 - Len(frac))
    IN NatText(milli \div 1000) \o <<".">> \o pad \o frac

\* the keys of a dict in insertion order
KeySeq(d) == [i \in 1..Len(d) |-> d[i].k]

\* "if normalized not in all_original_tests:
\*      all_original_tests[normalized] = test_name" over the keys of one dict
RECURSIVE AddOriginals(_, _)
AddOriginals(orig, keys) ==
    IF keys = <<>> THEN orig
    ELSE LET normalized == normalize_test_name(Head(keys))
         IN AddOriginals(IF HasKey(orig, normalized) THEN orig
                         ELSE Put(orig, normalized, Head(keys)),
                         Tail(keys))

\* all_original_tests after the loop over [baseline, compute, triton]
RECURSIVE AllOriginalTests(_, _)
AllOriginalTests(orig, dicts) ==
    IF dicts = <<>> THEN orig
    ELSE AllOriginalTests(IF DictTruthy(Head(dicts))
                          THEN AddOriginals(orig, KeySeq(Head(dicts).d))
                          ELSE orig,
                          Tail(dicts))

RECURSIVE Aggregate(_, _)
Aggregate(agg, d) ==
    IF d = <<>> THEN agg
    ELSE LET n   == normalize_test_name(Head(d).k)
             old == IF HasKey(agg, n) THEN Get(agg, n)
                    ELSE [total_ms |-> 0, count |-> 0, test_variants |-> 0]
         IN Aggregate(Put(agg, n, [total_ms |-> old.total_ms + Head(d).v.total_ms,
                                   count |-> old.count + Head(d).v.count,
                                   test_variants |-> old.test_variants + 1]),
                      Tail(d))

\* a plausible slip: the identifiers are not normalized
aggregate_by_function_raw(totals_dict) ==
    [i \in 1..Len(totals_dict.d) |->
        [k |-> totals_dict.d[i].k,
         v |-> [total_ms |-> totals_dict.d[i].v.total_ms,
                count |-> totals_dict.d[i].v.count,
                test_variants |-> 1]]]

aggregate_by_function(totals_dict) ==
    IF ~DictTruthy(totals_dict) THEN <<>> ELSE Aggregate(<<>>, totals_dict.d)

\* the sort key: an int, or float('inf')
Inf == [inf |-> TRUE, n |-> 0]

KeyLE(a, b) == b.inf \/ (~a.inf /\ a.n <= b.n)

\* a plausible slip: the number is looked for in the normalized name
extract_test_number_normalized(all_original_tests, name) ==
    IF HasNumberPrefix(name)
    THEN [inf |-> FALSE, n |-> ToInt(Take(name, DigitRun(name)))]
    ELSE Inf

extract_test_number(all_original_tests, name) ==
    LET original == IF HasKey(all_original_tests, name)
                    THEN Get(all_original_tests, name) ELSE name
    IN IF HasNumberPrefix(original)
       THEN [inf |-> FALSE, n |-> ToInt(Take(original, DigitRun(original)))]
       ELSE Inf

\* sorted(..., key=extract_test_number) is stable: an element goes after
\* every element whose key is not greater
RECURSIVE InsertByKey(_, _, _)
InsertByKey(sorted, x, orig) ==
    IF sorted = <<>> THEN <<x>>
    ELSE IF KeyLE(extract_test_number(orig, Head(sorted)), extract_test_number(orig, x))
         THEN <<Head(sorted)>> \o InsertByKey(Tail(sorted), x, orig)
         ELSE <<x>> \o sorted

RECURSIVE SortedByNumber(_, _)
SortedByNumber(order, orig) ==
    IF order = <<>> THEN <<>>
    ELSE InsertByKey(SortedByNumber(Take(order, Len(order) - 1), orig),
                     order[Len(order)], orig)

\* the orders in which a set can be iterated
IterationOrders(S) ==
    {o \in [1..Cardinality(S) -> S] : \A i, j \in 1..Cardinality(S) : o[i] = o[j] => i = j}

\* agg.get(test_name, {}).get('total_ms', 0.0)
TotalOr0(agg, name) == IF HasKey(agg, name) THEN Get(agg, name).total_ms ELSE 0

CsvData(sorted_tests, baseline_agg, compute_agg, triton_agg) ==
    [i \in 1..Len(sorted_tests) |->
        [Test_Name |-> sorted_tests[i],
         baseline_kernel_time |-> Format3(TotalOr0(baseline_agg, sorted_tests[i])),
         compute_sanitizer_kernel_time |-> Format3(TotalOr0(compute_agg, sorted_tests[i])),
         triton_sanitizer_kernel_time |-> Format3(TotalOr0(triton_agg, sorted_tests[i]))]]

AllTests(b, c, t) ==
    Keys(aggregate_by_function(b)) \cup Keys(aggregate_by_function(c))
        \cup Keys(aggregate_by_function(t))

(***************************************************************************)
(* SpecCsv: export_to_csv on result maps of up to MaxTests entries in all, *)
(* filled in the order main obtains them (baseline, compute-sanitizer,     *)
(* triton-sanitizer).                                                      *)
(***************************************************************************)
MaxTests == 3

RawIds ==
    { <<"2", "_", "a">>, <<"1", "0", "_", "b">>, <<"a">>, <<"c">>, <<"b", "[", "p", "]">> }

TimeValues == {1500}

TotalsArg(c) ==
    IF c = 1 THEN baseline_totals ELSE IF c = 2 THEN compute_totals ELSE triton_totals

EntryCount == Len(baseline_totals.d) + Len(compute_totals.d) + Len(triton_totals.d)

InitCsv ==
    /\ baseline_totals = NoneDict
    /\ compute_totals = NoneDict
    /\ triton_totals = NoneDict
    /\ csv_stage = 1
    /\ csv_pc = "args"
    /\ csv_data = <<>>
    /\ IdleNorm /\ IdleParse /\ IdleOverhead /\ IdleConfig /\ IdleMain /\ IdleFind /\ IdleRunner /\ IdleSum /\ IdleAblation /\ IdleFormat /\ IdleAsan /\ IdleHeader /\ IdleLayout /\ IdleAgain /\ IdlePrepare

SetTotals(c, val) ==
    /\ baseline_totals' = IF c = 1 THEN val ELSE baseline_totals
    /\ compute_totals' = IF c = 2 THEN val ELSE compute_totals
    /\ triton_totals' = IF c = 3 THEN val ELSE triton_totals
    /\ csv_stage' = c

\* analyze_configuration found log files but no record: the argument is {}
EmptyTotals(c) ==
    /\ csv_pc = "args"
    /\ c >= csv_stage
    /\ TotalsArg(c).is_none
    /\ SetTotals(c, SomeDict(<<>>))
    /\ UNCHANGED <<csv_pc, csv_data, exceptCsv>>

\* one more test in the totals of configuration c
AddTest(c, id, ms) ==
    /\ csv_pc = "args"
    /\ c >= csv_stage
    /\ EntryCount < MaxTests
    /\ ~HasKey(TotalsArg(c).d, id)
    /\ SetTotals(c, SomeDict(Append(TotalsArg(c).d,
            [k |-> id,
             v |-> [total_ms |-> ms, count |-> 1,
                    measurements |-> <<[kernel |-> "k1", time_ms |-> ms]>>]])))
    /\ UNCHANGED <<csv_pc, csv_data, exceptCsv>>

\* "if not all_tests: return None"
ExportNothing ==
    /\ csv_pc = "args"
    /\ AllTests(baseline_totals, compute_totals, triton_totals) = {}
    /\ csv_pc' = "nothing"
    /\ UNCHANGED <<baseline_totals, compute_totals, triton_totals, csv_stage, csv_data, exceptCsv>>

\* export_to_csv: order is the iteration order of the set all_tests
ExportToCsv(order, write_ok) ==
    /\ csv_pc = "args"
    /\ order \in IterationOrders(AllTests(baseline_totals, compute_totals, triton_totals))
    /\ order # <<>>
    /\ LET all_original_tests ==
               AllOriginalTests(<<>>, <<baseline_totals, compute_totals, triton_totals>>)
           sorted_tests == SortedByNumber(order, all_original_tests)
       IN csv_data' = CsvData(sorted_tests,
                              aggregate_by_function(baseline_totals),
                              aggregate_by_function(compute_totals),
                              aggregate_by_function(triton_totals))
    /\ csv_pc' = IF write_ok THEN "written" ELSE "failed"
    /\ UNCHANGED <<baseline_totals, compute_totals, triton_totals, csv_stage, exceptCsv>>

NextCsv ==
    \/ \E c \in 1..3 : EmptyTotals(c)
    \/ \E c \in 1..3, id \in RawIds, ms \in TimeValues : AddTest(c, id, ms)
    \/ ExportNothing
    \/ \E order \in IterationOrders(AllTests(baseline_totals, compute_totals, triton_totals)),
          write_ok \in BOOLEAN : ExportToCsv(order, write_ok)

SpecCsv == InitCsv /\ [][NextCsv]_vars

\* the raw identifier export_to_csv keeps for a logical test: the first one,
\* in the order baseline, compute-sanitizer, triton-sanitizer and in each
\* map's own order, that normalizes to it
RawIdSeq ==
    (IF DictTruthy(baseline_totals) THEN KeySeq(baseline_totals.d) ELSE <<>>)
        \o (IF DictTruthy(compute_totals) THEN KeySeq(compute_totals.d) ELSE <<>>)
        \o (IF DictTruthy(triton_totals) THEN KeySeq(triton_totals.d) ELSE <<>>)

RawIdOf(name) ==
    LET first == CHOOSE i \in 1..Len(RawIdSeq) :
                     /\ normalize_test_name(RawIdSeq[i]) = name
                     /\ \A j \in 1..(i - 1) : normalize_test_name(RawIdSeq[j]) # name
    IN RawIdSeq[first]

Numbered(name) == HasNumberPrefix(RawIdOf(name))

FileNumber(name) == ToInt(Take(RawIdOf(name), DigitRun(RawIdOf(name))))

\* C4: the rows export_to_csv writes are in ascending order of the file
\* number (the numeric prefix of the raw identifier kept for the logical
\* test), and every test whose identifier has no numeric prefix comes after
\* all numbered tests
C4_RowsByFileNumber ==
    csv_pc \in {"written", "failed"} =>
        \A i, j \in 1..Len(csv_data) :
            i < j =>
                LET a == csv_data[i].Test_Name
                    b == csv_data[j].Test_Name
                IN /\ Numbered(b) => Numbered(a)
                   /\ (Numbered(a) /\ Numbered(b)) => FileNumber(a) <= FileNumber(b)

\* rows for file numbers 2 and 10 and for an unnumbered test, in that order
C4_Witness ==
    /\ csv_pc = "written"
    /\ Len(csv_data) = 3
    /\ Numbered(csv_data[1].Test_Name) /\ FileNumber(csv_data[1].Test_Name) = 2
    /\ Numbered(csv_data[2].Test_Name) /\ FileNumber(csv_data[2].Test_Name) = 10
    /\ ~Numbered(csv_data[3].Test_Name)

(***************************************************************************)
(* main of analyze_kernel_time.py                                          *)
(***************************************************************************)
\* the loop over log_files in analyze_configuration
RECURSIVE MergeFiles(_, _, _)
MergeFiles(triton, all, files) ==
    IF files = <<>> THEN all
    ELSE MergeFiles(triton, MergeResults(all, ParseFile(triton, Head(files)).ret), Tail(files))

\* analyze_configuration on the list find_log_files returned
AnalyzeKernelConfiguration(triton, files) ==
    IF files = <<>> THEN NoneDict
    ELSE SomeDict(ConfigTotals(MergeFiles(triton, <<>>, files)))

\* sum(t['total_ms'] for t in totals.values())
TotalMs(d) == SumSeq([i \in 1..Len(d) |-> d[i].v.total_ms])

\* "((total / baseline_total) - 1) * 100 if baseline_total > 0 else 0", as a
\* fraction num / den
Overhead(total, baseline_total) ==
    IF baseline_total > 0
    THEN [num |-> (total - baseline_total) * 100, den |-> baseline_total]
    ELSE [num |-> 0, den |-> 1]

\* the "Overhead vs Baseline" lines of the summary
KernelSummary(b, c, t) ==
    (IF DictTruthy(c) /\ DictTruthy(b)
     THEN <<[config |-> "compute-sanitizer", overhead |-> Overhead(TotalMs(c.d), TotalMs(b.d))]>>
     ELSE <<>>)
    \o (IF DictTruthy(t) /\ DictTruthy(b)
        THEN <<[config |-> "triton-sanitizer", overhead |-> Overhead(TotalMs(t.d), TotalMs(b.d))]>>
        ELSE <<>>)

(***************************************************************************)
(* analyze_ablation_kernel_time.py                                         *)
(***************************************************************************)
configs == <<"no_cache", "symbol_only", "symbol_loop", "symbol_loop_grid", "all_cache">>

\* a log file of a configuration directory: number and base are the groups
\* of '^(\d+)_(.+)\.log$' on its name, None where the name does not match
NamedFile(number, base, file) == [number |-> number, base |-> base, file |-> file]

\* "for test_name, measurements in results.items(): for m in measurements"
FileTotal(res) ==
    SumSeq([i \in 1..Len(res) |->
               SumSeq([j \in 1..Len(res[i].v) |-> res[i].v[j].time_ms])])

FileCount(res) == SumSeq([i \in 1..Len(res) |-> Len(res[i].v)])

\* a plausible slip: the entry of a file number seen before is added to
StoreFileTotalAccumulate(ft, f) ==
    LET res == ParseFile(TRUE, f.file).ret
        n   == ToInt(f.number)
    IN IF f.number = None THEN ft
       ELSE IF HasKey(ft, n)
            THEN Put(ft, n, [file_name |-> f.base,
                             total_ms |-> Get(ft, n).total_ms + FileTotal(res),
                             count |-> Get(ft, n).count + FileCount(res)])
            ELSE Put(ft, n, [file_name |-> f.base,
                             total_ms |-> FileTotal(res),
                             count |-> FileCount(res)])

\* one turn of the loop over log_files in analyze_configuration: "continue"
\* for a name the pattern does not match, else parse, sum and
\* "file_totals[file_number] = {...}"
StoreFileTotal(ft, f) ==
    LET res == ParseFile(TRUE, f.file).ret
    IN IF f.number = None THEN ft
       ELSE Put(ft, ToInt(f.number),
                [file_name |-> f.base,
                 total_ms |-> FileTotal(res),
                 count |-> FileCount(res)])

\* the loop over log_files in analyze_configuration
RECURSIVE FileTotals(_, _)
FileTotals(ft, files) ==
    IF files = <<>> THEN ft
    ELSE FileTotals(StoreFileTotal(ft, Head(files)), Tail(files))

AnalyzeAblationConfiguration(files) ==
    IF files = <<>> THEN NoneDict ELSE SomeDict(FileTotals(<<>>, files))

\* summary_data: (configuration, total) of every configuration with results
RECURSIVE SummaryData(_, _)
SummaryData(per_config, i) ==
    IF i > Len(per_config) THEN <<>>
    ELSE (IF DictTruthy(per_config[i])
          THEN <<[config |-> configs[i], total_ms |-> TotalMs(per_config[i].d)]>>
          ELSE <<>>) \o SummaryData(per_config, i + 1)

\* "for config_desc, total_ms in summary_data[1:]: if total_ms > 0:
\*      speedup = baseline / total_ms
\*      reduction = (1 - total_ms / baseline) * 100"
RECURSIVE SpeedupLines(_, _, _)
SpeedupLines(baseline, rest, lines) ==
    IF rest = <<>> THEN [lines |-> lines, exc |-> "none"]
    ELSE IF Head(rest).total_ms > 0
         THEN IF baseline = 0
              THEN [lines |-> lines, exc |-> "ZeroDivisionError"]
              ELSE SpeedupLines(baseline, Tail(rest),
                       Append(lines,
                           [config |-> Head(rest).config,
                            speedup |-> [num |-> baseline, den |-> Head(rest).total_ms],
                            reduction |-> [num |-> (baseline - Head(rest).total_ms) * 100,
                                           den |-> baseline]]))
         ELSE SpeedupLines(baseline, Tail(rest), lines)

AblationSummary(per_config) ==
    LET summary_data == SummaryData(per_config, 1)
    IN IF summary_data # <<>> /\ summary_data[1].config = "no_cache"
       THEN SpeedupLines(summary_data[1].total_ms, Tail(summary_data), <<>>)
       ELSE [lines |-> <<>>, exc |-> "none"]

StartsWith(s, prefix) == Len(s) >= Len(prefix) /\ Take(s, Len(prefix)) = prefix

liger_kernel == <<"l", "i", "g", "e", "r", "_", "k", "e", "r", "n", "e", "l">>
flag_gems == <<"f", "l", "a", "g", "_", "g", "e", "m", "s">>
tritonbench == <<"t", "r", "i", "t", "o", "n", "b", "e", "n", "c", "h">>
repos == <<liger_kernel, flag_gems, tritonbench>>

\* the positions (from 0) where 'test_' starts, found left to right without
\* overlap
RECURSIVE TestPositions(_, _)
TestPositions(remainder, i) ==
    IF i >= Len(remainder) THEN <<>>
    ELSE IF StartsWith(Drop(remainder, i), <<"t", "e", "s", "t", "_">>)
         THEN <<i>> \o TestPositions(remainder, i + 5)
         ELSE TestPositions(remainder, i + 1)

format_test_name(file_name) ==
    LET found == {i \in 1..Len(repos) : StartsWith(file_name, Append(repos[i], "_"))}
    IN IF found = {} THEN file_name
       ELSE LET repo == repos[CHOOSE i \in found : \A j \in found : i <= j]
                remainder == Drop(file_name, Len(repo) + 1)
                test_positions == TestPositions(remainder, 0)
            IN IF repo = tritonbench \/ Len(test_positions) <= 1
               THEN repo \o <<"/">> \o remainder
               ELSE LET split_pos == test_positions[Len(test_positions)]
                    IN repo \o <<"/">> \o Take(remainder, split_pos - 1)
                            \o <<"/">> \o Drop(remainder, split_pos)

\* all_file_numbers
AllFileNumbers(per_config) ==
    UNION {Keys(per_config[i].d) : i \in {j \in 1..Len(per_config) : DictTruthy(per_config[j])}}

\* sorted(all_file_numbers)
RECURSIVE SortedNumbers(_)
SortedNumbers(S) ==
    IF S = {} THEN <<>>
    ELSE LET m == CHOOSE x \in S : \A y \in S : x <= y
         IN <<m>> \o SortedNumbers(S \ {m})

\* the row of one file number
AblationRow(per_config, file_number) ==
    LET holder == CHOOSE i \in 1..Len(per_config) :
                      /\ HasKey(per_config[i].d, file_number)
                      /\ \A j \in 1..(i - 1) : ~HasKey(per_config[j].d, file_number)
        cell(i) == Format3(IF HasKey(per_config[i].d, file_number)
                           THEN Get(per_config[i].d, file_number).total_ms ELSE 0)
    IN [Test_Name |-> format_test_name(Get(per_config[holder].d, file_number).file_name),
        times |-> [i \in 1..Len(per_config) |-> cell(i)]]

\* export_to_csv: config_results.get(config_name, {}) is None for a
\* configuration without log files, and "file_number in None" and
\* "None.get" raise before the try block
AblationExport(per_config) ==
    LET numbers == SortedNumbers(AllFileNumbers(per_config))
        nones   == {i \in 1..Len(per_config) : per_config[i].is_none}
        holder1 == CHOOSE i \in 1..Len(per_config) :
                       /\ HasKey(per_config[i].d, numbers[1])
                       /\ \A j \in 1..(i - 1) : ~HasKey(per_config[j].d, numbers[1])
    IN IF numbers = <<>> THEN [rows |-> <<>>, exc |-> "none", written |-> FALSE]
       ELSE IF nones # {}
            THEN [rows |-> <<>>,
                  exc |-> IF \E i \in nones : i < holder1 THEN "TypeError" ELSE "AttributeError",
                  written |-> FALSE]
            ELSE [rows |-> [n \in 1..Len(numbers) |-> AblationRow(per_config, numbers[n])],
                  exc |-> "none", written |-> TRUE]

(***************************************************************************)
(* SpecMain: one run of main of analyze_kernel_time.py or of               *)
(* analyze_ablation_kernel_time.py on a directory that exists or not and   *)
(* whose configuration directories hold the log files of KernelDirs or     *)
(* AblationDirs.                                                           *)
(***************************************************************************)
T00 == <<"0", ".", "0">>
N02 == <<"0", "2">>
LineLiger00 == Line(None, None, None, <<Seg("liger", "k1", T00)>>)

\* what find_log_files returns for one configuration
KernelDirs ==
    { <<>>,
      <<LogFile("ok", <<LineTestA>>)>>,
      <<LogFile("ok", <<LineTestA, LineLiger25>>)>>,
      <<LogFile("ok", <<LineTestA, LineLiger00>>)>>,
      <<LogFile("ok", <<LineTestA, LineViz20>>)>>,
      <<LogFile("ok", <<LineTestA, LineLiger25, LineViz20>>),
        LogFile("ok", <<LineTestB, LineProfiler35, LineViz20>>)>> }

BaseTb == <<"t", "r", "i", "t", "o", "n", "b", "e", "n", "c", "h", "_", "x">>
BaseLiger == <<"l", "i", "g", "e", "r", "_", "k", "e", "r", "n", "e", "l", "_", "t", "e", "s", "t", "_", "a", "_", "t", "e", "s", "t", "_", "b">>
BaseRun == <<"r", "u", "n">>

AblationDirs ==
    { <<>>,
      <<NamedFile(N01, BaseTb, LogFile("ok", <<LineTestA>>))>>,
      <<NamedFile(N01, BaseTb, LogFile("ok", <<LineTestA, LineViz20>>))>>,
      <<NamedFile(N01, BaseTb, LogFile("ok", <<LineTestA, LineViz20>>)),
        NamedFile(N02, BaseLiger, LogFile("ok", <<LineTestA, LineViz20, LineViz20>>))>>,
      <<NamedFile(None, BaseRun, LogFile("ok", <<LineTestA, LineViz20>>))>> }

InitMain ==
    /\ main_script \in {"kernel_time", "ablation"}
    /\ dir_exists \in BOOLEAN
    /\ config_results = <<>>
    /\ main_pc = "start"
    /\ summary = <<>>
    /\ main_exc = "none"
    /\ exit_status = -1
    /\ main_csv = <<>>
    /\ IdleNorm /\ IdleParse /\ IdleOverhead /\ IdleConfig /\ IdleCsv /\ IdleFind /\ IdleRunner /\ IdleSum /\ IdleAblation /\ IdleFormat /\ IdleAsan /\ IdleHeader /\ IdleLayout /\ IdleAgain /\ IdlePrepare

\* "if not output_dir.exists(): ... sys.exit(1)"
DirectoryNotFound ==
    /\ main_pc = "start"
    /\ ~dir_exists
    /\ main_pc' = "exited"
    /\ exit_status' = 1
    /\ UNCHANGED <<main_script, dir_exists, config_results, summary, main_exc, main_csv,
                   exceptMain>>

DirectoryFound ==
    /\ main_pc = "start"
    /\ dir_exists
    /\ main_pc' = "analyze"
    /\ UNCHANGED <<main_script, dir_exists, config_results, summary, main_exc, exit_status,
                   main_csv, exceptMain>>

\* the next of the three analyze_configuration calls; the third one reads
\* with parse_triton_sanitizer
AnalyzeKernel(files) ==
    /\ main_pc = "analyze"
    /\ main_script = "kernel_time"
    /\ config_results' =
           Append(config_results, AnalyzeKernelConfiguration(Len(config_results) = 2, files))
    /\ main_pc' = IF Len(config_results) = 2 THEN "summary" ELSE "analyze"
    /\ UNCHANGED <<main_script, dir_exists, summary, main_exc, exit_status, main_csv,
                   exceptMain>>

\* the next turn of "for config_name, config_desc in configs"
AnalyzeAblation(files) ==
    /\ main_pc = "analyze"
    /\ main_script = "ablation"
    /\ config_results' = Append(config_results, AnalyzeAblationConfiguration(files))
    /\ main_pc' = IF Len(config_results) = Len(configs) - 1 THEN "summary" ELSE "analyze"
    /\ UNCHANGED <<main_script, dir_exists, summary, main_exc, exit_status, main_csv,
                   exceptMain>>

SummaryKernel ==
    /\ main_pc = "summary"
    /\ main_script = "kernel_time"
    /\ summary' = KernelSummary(config_results[1], config_results[2], config_results[3])
    /\ main_pc' = "export"
    /\ UNCHANGED <<main_script, dir_exists, config_results, main_exc, exit_status, main_csv,
                   exceptMain>>

\* an exception that leaves main ends the process with status 1
SummaryAblation ==
    /\ main_pc = "summary"
    /\ main_script = "ablation"
    /\ LET r == AblationSummary(config_results)
       IN /\ summary' = r.lines
          /\ main_exc' = r.exc
          /\ main_pc' = IF r.exc = "none" THEN "export" ELSE "exited"
          /\ exit_status' = IF r.exc = "none" THEN exit_status ELSE 1
    /\ UNCHANGED <<main_script, dir_exists, config_results, main_csv, exceptMain>>

\* "if args.csv: export_to_csv(...)", then main returns
ExportKernel(csv_given, order, write_ok) ==
    /\ main_pc = "export"
    /\ main_script = "kernel_time"
    /\ order \in IterationOrders(AllTests(config_results[1], config_results[2], config_results[3]))
    /\ main_csv' =
           IF csv_given /\ write_ok
           THEN CsvData(SortedByNumber(order, AllOriginalTests(<<>>, config_results)),
                        aggregate_by_function(config_results[1]),
                        aggregate_by_function(config_results[2]),
                        aggregate_by_function(config_results[3]))
           ELSE <<>>
    /\ main_pc' = "exited"
    /\ exit_status' = 0
    /\ UNCHANGED <<main_script, dir_exists, config_results, summary, main_exc, exceptMain>>

ExportAblation(csv_given, write_ok) ==
    /\ main_pc = "export"
    /\ main_script = "ablation"
    /\ LET r == IF csv_given THEN AblationExport(config_results)
                ELSE [rows |-> <<>>, exc |-> "none", written |-> FALSE]
       IN /\ main_csv' = IF write_ok THEN r.rows ELSE <<>>
          /\ main_exc' = r.exc
          /\ exit_status' = IF r.exc = "none" THEN 0 ELSE 1
    /\ main_pc' = "exited"
    /\ UNCHANGED <<main_script, dir_exists, config_results, summary, exceptMain>>

NextMain ==
    \/ DirectoryNotFound
    \/ DirectoryFound
    \/ \E files \in KernelDirs : AnalyzeKernel(files)
    \/ \E files \in AblationDirs : AnalyzeAblation(files)
    \/ SummaryKernel
    \/ SummaryAblation
    \/ \E csv_given \in BOOLEAN, write_ok \in BOOLEAN,
          order \in UNION {IterationOrders(S) : S \in SUBSET {NameA, NameB}} :
              ExportKernel(csv_given, order, write_ok)
    \/ \E csv_given \in BOOLEAN, write_ok \in BOOLEAN : ExportAblation(csv_given, write_ok)

SpecMain == InitMain /\ [][NextMain]_vars

\* C3: the summary ratios never raise a division by zero: whatever the
\* totals of the configurations, a baseline / no_cache total of 0 included,
\* the summary ends without ZeroDivisionError and the script goes on to the
\* export
C3_SummaryNeverDividesByZero ==
    [][(main_pc = "summary") => (main_exc' = "none" /\ main_pc' = "export")]_vars

\* C7: the script ends with status 1 exactly when the directory does not
\* exist, and with status 0 for every directory that exists
C7_Status1IffDirectoryMissing ==
    main_pc = "exited" =>
        /\ (exit_status = 1) <=> ~dir_exists
        /\ dir_exists => exit_status = 0

(***************************************************************************)
(* find_log_files (analyze_kernel_time.py, analyze_ablation_kernel_time.py) *)
(***************************************************************************)
\* possible_paths: the parent of <config_name> under output_dir, "" for the
\* direct layout
possible_paths(script) ==
    IF script = "kernel_time"
    THEN <<"", "kernel_time_liger_kernel", "kernel_time_tritonbench">>
    ELSE <<"", "ablation_studies">>

\* what is on disk at a candidate path: nothing, a regular file, or a
\* directory with entries; an entry lies depth directories below it
Missing == [kind |-> "missing", entries |-> {}]

Entry(depth, name, is_dir) == [depth |-> depth, name |-> name, is_dir |-> is_dir]

\* the path of an entry: parent is the element of possible_paths it is under
At(parent, e) == [parent |-> parent, depth |-> e.depth, name |-> e.name, is_dir |-> e.is_dir]

\* a plausible slip: only a directory counts as existing
PathExistsDirOnly(cand) == cand.kind = "dir"

\* path.exists()
PathExists(cand) == cand.kind # "missing"

EndsWith(s, suffix) == Len(s) >= Len(suffix) /\ Drop(s, Len(s) - Len(suffix)) = suffix

DotLog == <<".", "l", "o", "g">>
RunLogName == <<"r", "u", "n", ".", "l", "o", "g">>

\* the elements of a set in some order
RECURSIVE Listing(_)
Listing(S) ==
    IF S = {} THEN <<>>
    ELSE LET x == CHOOSE y \in S : TRUE IN <<x>> \o Listing(S \ {x})

\* "run_log = config_path / 'run.log'; if run_log.exists()"
RunLog(cand) == {e \in cand.entries : e.depth = 0 /\ e.name = RunLogName}

\* config_path.glob('*.log')
GlobLog(cand) == {e \in cand.entries : e.depth = 0 /\ EndsWith(e.name, DotLog)}

\* config_path.glob('**/*.log')
GlobLogRecursive(cand) == {e \in cand.entries : EndsWith(e.name, DotLog)}

\* log_files before "list(set(log_files))"
Collected(cand) ==
    Listing(RunLog(cand)) \o Listing(GlobLog(cand)) \o Listing(GlobLogRecursive(cand))

\* a plausible slip: the duplicates are kept
RemoveDuplicatesNone(list) == list

\* set(log_files): each path once
RECURSIVE RemoveDuplicates(_)
RemoveDuplicates(list) ==
    IF list = <<>> THEN <<>>
    ELSE LET rest == RemoveDuplicates(Take(list, Len(list) - 1))
             x    == list[Len(list)]
         IN IF \E i \in 1..Len(rest) : rest[i] = x THEN rest ELSE Append(rest, x)

\* the start of the leftmost match of '(\d+)_' in name from position i on,
\* 0 if there is none
RECURSIVE NumberStart(_, _)
NumberStart(name, i) ==
    IF i > Len(name) THEN 0
    ELSE IF IsDigit(name[i])
         THEN LET run == DigitRun(Drop(name, i - 1))
              IN IF i + run <= Len(name) /\ name[i + run] = "_" THEN i
                 ELSE NumberStart(name, i + run)
         ELSE NumberStart(name, i + 1)

\* extract_number of find_log_files, on path.name
extract_number(name) ==
    LET start == NumberStart(name, 1)
    IN IF start = 0 THEN Inf
       ELSE [inf |-> FALSE,
             n |-> ToInt(SubSeq(name, start, start + DigitRun(Drop(name, start - 1)) - 1))]

\* log_files.sort(key=extract_number) is stable
RECURSIVE InsertByNumber(_, _)
InsertByNumber(sorted, x) ==
    IF sorted = <<>> THEN <<x>>
    ELSE IF KeyLE(extract_number(Head(sorted).name), extract_number(x.name))
         THEN <<Head(sorted)>> \o InsertByNumber(Tail(sorted), x)
         ELSE <<x>> \o sorted

RECURSIVE SortByNumber(_)
SortByNumber(list) ==
    IF list = <<>> THEN <<>>
    ELSE InsertByNumber(SortByNumber(Take(list, Len(list) - 1)), list[Len(list)])

(***************************************************************************)
(* SpecFind: find_log_files on an output directory whose candidate paths   *)
(* are missing, regular files or directories holding up to MaxEntries      *)
(* entries in all.                                                         *)
(***************************************************************************)
MaxEntries == 3

SampleEntries ==
    { Entry(0, RunLogName, FALSE),
      Entry(0, <<"2", "_", "a", ".", "l", "o", "g">>, FALSE),
      Entry(0, <<"1", "0", "_", "b", ".", "l", "o", "g">>, FALSE),
      Entry(0, <<"x", ".", "l", "o", "g">>, FALSE),
      Entry(0, <<"n", ".", "t", "x", "t">>, FALSE),
      Entry(0, <<"d", ".", "l", "o", "g">>, TRUE),
      Entry(1, RunLogName, FALSE),
      Entry(1, <<"2", "_", "a", ".", "l", "o", "g">>, FALSE),
      Entry(2, <<"a", "_", "3", "_", "b", ".", "l", "o", "g">>, FALSE) }

EntriesOnDisk == SumSeq([i \in 1..Len(fl_cands) |-> Cardinality(fl_cands[i].entries)])

InitFind ==
    /\ fl_script \in {"kernel_time", "ablation"}
    /\ fl_cands = [i \in 1..Len(possible_paths(fl_script)) |-> Missing]
    /\ fl_pc = "setup"
    /\ fl_probed = <<>>
    /\ config_path = 0
    /\ log_files = <<>>
    /\ IdleNorm /\ IdleParse /\ IdleOverhead /\ IdleConfig /\ IdleCsv /\ IdleMain /\ IdleRunner /\ IdleSum /\ IdleAblation /\ IdleFormat /\ IdleAsan /\ IdleHeader /\ IdleLayout /\ IdleAgain /\ IdlePrepare

\* the disk before the call: something is at candidate path c
CreatePath(c, kind) ==
    /\ fl_pc = "setup"
    /\ c \in 1..Len(fl_cands)
    /\ fl_cands[c].kind = "missing"
    /\ fl_cands' = [fl_cands EXCEPT ![c].kind = kind]
    /\ UNCHANGED <<fl_script, fl_pc, fl_probed, config_path, log_files, exceptFind>>

\* the disk before the call: one more entry under candidate directory c
CreateEntry(c, e) ==
    /\ fl_pc = "setup"
    /\ c \in 1..Len(fl_cands)
    /\ fl_cands[c].kind = "dir"
    /\ EntriesOnDisk < MaxEntries
    /\ At(possible_paths(fl_script)[c], e) \notin fl_cands[c].entries
    /\ fl_cands' = [fl_cands EXCEPT ![c].entries = @ \cup {At(possible_paths(fl_script)[c], e)}]
    /\ UNCHANGED <<fl_script, fl_pc, fl_probed, config_path, log_files, exceptFind>>

CallFindLogFiles ==
    /\ fl_pc = "setup"
    /\ fl_pc' = "probe"
    /\ UNCHANGED <<fl_script, fl_cands, fl_probed, config_path, log_files, exceptFind>>

\* one turn of "for path in possible_paths: if path.exists(): ... break"
ProbePath ==
    /\ fl_pc = "probe"
    /\ Len(fl_probed) < Len(fl_cands)
    /\ LET i == Len(fl_probed) + 1
       IN /\ fl_probed' = Append(fl_probed, i)
          /\ IF PathExists(fl_cands[i])
             THEN config_path' = i /\ fl_pc' = "collect"
             ELSE UNCHANGED <<config_path, fl_pc>>
    /\ UNCHANGED <<fl_script, fl_cands, log_files, exceptFind>>

\* "if config_path is None: return []"
ReturnNoFiles ==
    /\ fl_pc = "probe"
    /\ Len(fl_probed) = Len(fl_cands)
    /\ log_files' = <<>>
    /\ fl_pc' = "done"
    /\ UNCHANGED <<fl_script, fl_cands, fl_probed, config_path, exceptFind>>

\* the rest of find_log_files; perm is the order in which list(set(...))
\* hands out the paths
CollectLogFiles(perm) ==
    /\ fl_pc = "collect"
    /\ LET unique == RemoveDuplicates(Collected(fl_cands[config_path]))
       IN /\ DOMAIN perm = 1..Len(unique)
          /\ log_files' = SortByNumber([i \in 1..Len(unique) |-> unique[perm[i]]])
    /\ fl_pc' = "done"
    /\ UNCHANGED <<fl_script, fl_cands, fl_probed, config_path, exceptFind>>

NextFind ==
    \/ \E c \in 1..Len(fl_cands), kind \in {"file", "dir"} : CreatePath(c, kind)
    \/ \E c \in 1..Len(fl_cands), e \in SampleEntries : CreateEntry(c, e)
    \/ CallFindLogFiles
    \/ ProbePath
    \/ ReturnNoFiles
    \/ \E perm \in UNION {IterationOrders(1..k) : k \in 0..MaxEntries} :
           CollectLogFiles(perm)

SpecFind == InitFind /\ [][NextFind]_vars

\* the candidates that exist on disk
ExistingPaths == {i \in 1..Len(fl_cands) : fl_cands[i].kind # "missing"}

\* C11: find_log_files examines the candidate layouts in their fixed order
\* and takes its files only from the first candidate that exists, without
\* consulting a later one (even if the first holds no log file); if no
\* candidate exists it returns an empty list
C11_FirstExistingCandidate ==
    /\ fl_probed = [i \in 1..Len(fl_probed) |-> i]
    /\ fl_pc \in {"collect", "done"} =>
           IF ExistingPaths = {}
           THEN /\ fl_pc = "done"
                /\ config_path = 0
                /\ log_files = <<>>
           ELSE /\ config_path \in ExistingPaths
                /\ \A i \in ExistingPaths : config_path <= i
                /\ Len(fl_probed) = config_path
                /\ \A i \in 1..Len(log_files) :
                       /\ log_files[i] \in fl_cands[config_path].entries
                       /\ log_files[i].parent = possible_paths(fl_script)[config_path]

\* the first candidate exists without any log file (a regular file, or a
\* directory with a text file only), a later candidate holds log files, and
\* the list returned is empty
C11_Witness ==
    /\ fl_pc = "done"
    /\ config_path = 1
    /\ log_files = <<>>
    /\ fl_cands[1].kind = "dir"
    /\ fl_cands[1].entries # {}
    /\ \E e \in fl_cands[2].entries : EndsWith(e.name, DotLog)

\* the runs of digits of a name that are followed by "_"
NumberRuns(name) ==
    {r \in (1..Len(name)) \X (1..Len(name)) :
        /\ r[1] <= r[2]
        /\ \A k \in r[1]..r[2] : IsDigit(name[k])
        /\ r[1] = 1 \/ ~IsDigit(name[r[1] - 1])
        /\ r[2] < Len(name) /\ name[r[2] + 1] = "_"}

HasNumber(name) == NumberRuns(name) # {}

\* the number embedded in a file name: its first run of digits followed by "_"
EmbeddedNumber(name) ==
    LET r == CHOOSE x \in NumberRuns(name) : \A y \in NumberRuns(name) : x[1] <= y[1]
    IN ToInt(SubSeq(name, r[1], r[2]))

\* C12: the list returned by find_log_files holds every *.log file at any
\* depth under the chosen directory exactly once (run.log too), in
\* non-decreasing order of the number embedded in the file name, the files
\* without such a number after all numbered files
C12_EveryLogOnceSorted ==
    (fl_pc = "done" /\ config_path # 0) =>
        /\ \A e \in fl_cands[config_path].entries :
               (~e.is_dir /\ EndsWith(e.name, DotLog)) =>
                   Cardinality({i \in 1..Len(log_files) : log_files[i] = e}) = 1
        /\ \A i, j \in 1..Len(log_files) :
               i < j =>
                   /\ HasNumber(log_files[j].name) => HasNumber(log_files[i].name)
                   /\ HasNumber(log_files[j].name) =>
                          EmbeddedNumber(log_files[i].name) <= EmbeddedNumber(log_files[j].name)

\* run.log, a numbered file two directories down and another numbered file
\* are returned once each, the numbered ones first in the order 2, 3
C12_Witness ==
    /\ fl_pc = "done"
    /\ Len(log_files) = 3
    /\ log_files[1].name = <<"2", "_", "a", ".", "l", "o", "g">>
    /\ log_files[2].depth = 2
    /\ log_files[3].name = RunLogName

(***************************************************************************)
(* The cells of the CSV files                                              *)
(***************************************************************************)
Zero3 == <<"0", ".", "0", "0", "0">>

\* the raw identifiers of a result map that belong to a logical test
VariantsOf(totals_dict, name) ==
    {i \in 1..Len(totals_dict.d) : normalize_test_name(totals_dict.d[i].k) = name}

\* the sum of the totals of these identifiers
RECURSIVE SumTotals(_, _)
SumTotals(d, idx) ==
    IF idx = {} THEN 0
    ELSE LET i == CHOOSE x \in idx : TRUE IN d[i].v.total_ms + SumTotals(d, idx \ {i})

\* the logical tests with records in at least one of the three result maps
LogicalTests(dicts) ==
    UNION {{normalize_test_name(dicts[c].d[i].k) : i \in 1..Len(dicts[c].d)} : c \in 1..Len(dicts)}

\* the cell a logical test is to have for one configuration
ExpectedCell(totals_dict, name) ==
    IF VariantsOf(totals_dict, name) = {} THEN Zero3
    ELSE Format3(SumTotals(totals_dict.d, VariantsOf(totals_dict, name)))

\* the rows of analyze_kernel_time.export_to_csv hold the cells expected
KernelCells(rows, dicts) ==
    \A name \in LogicalTests(dicts) :
        \E k \in 1..Len(rows) :
            /\ rows[k].Test_Name = name
            /\ rows[k].baseline_kernel_time = ExpectedCell(dicts[1], name)
            /\ rows[k].compute_sanitizer_kernel_time = ExpectedCell(dicts[2], name)
            /\ rows[k].triton_sanitizer_kernel_time = ExpectedCell(dicts[3], name)

\* the rows of analyze_ablation_kernel_time.export_to_csv: one per file
\* number, with the cells expected
AblationCells(rows, per_config) ==
    LET numbers == SortedNumbers(UNION {Keys(per_config[i].d) : i \in 1..Len(per_config)})
    IN /\ Len(rows) = Len(numbers)
       /\ \A k \in 1..Len(rows), i \in 1..Len(per_config) :
              rows[k].times[i] =
                  IF HasKey(per_config[i].d, numbers[k])
                  THEN Format3(Get(per_config[i].d, numbers[k]).total_ms)
                  ELSE Zero3

\* C13: in the CSV export_to_csv writes, every logical test with records in
\* some configuration has, for each configuration where it is absent (a
\* configuration without any result included), the cell "0.000", and for
\* each configuration where it is present its total with three decimals
C13_AbsentCellIsZero ==
    [][/\ ExportAblation(TRUE, TRUE) => AblationCells(main_csv', config_results)
       /\ (\E order \in UNION {IterationOrders(S) : S \in SUBSET {NameA, NameB}} :
               ExportKernel(TRUE, order, TRUE)) => KernelCells(main_csv', config_results)]_vars

\* C14: the CSV of analyze_kernel_time.export_to_csv has exactly one row
\* per normalized identifier of the three result maps: the raw identifiers
\* with one normalized name share the row, each cell is the sum of their
\* totals, and no normalized name is in two rows
C14_OneRowPerLogicalTest ==
    csv_pc = "written" =>
        LET dicts == <<baseline_totals, compute_totals, triton_totals>>
        IN /\ \A name \in LogicalTests(dicts) :
                  Cardinality({k \in 1..Len(csv_data) : csv_data[k].Test_Name = name}) = 1
           /\ \A k \in 1..Len(csv_data) : csv_data[k].Test_Name \in LogicalTests(dicts)
           /\ KernelCells(csv_data, dicts)

\* the baseline map holds "2_a" and "a", the compute-sanitizer map "b[p]" or
\* "10_b": two rows, the baseline cell of a is the sum 3.000
C14_Witness ==
    /\ csv_pc = "written"
    /\ Len(baseline_totals.d) = 2
    /\ Len(csv_data) = 2
    /\ \E k \in 1..2 :
           /\ csv_data[k].Test_Name = NameA
           /\ csv_data[k].baseline_kernel_time = <<"3", ".", "0", "0", "0">>
           /\ csv_data[k].compute_sanitizer_kernel_time = Zero3

(***************************************************************************)
(* TestRunner (runner.py)                                                  *)
(***************************************************************************)
\* ENV_CONFIGS, cut down to one configuration of each of two groups
ENV_CONFIGS ==
    << [key |-> "baseline_compile_no_cache", group |-> "baseline"],
       [key |-> "compute_sanitizer_compile_no_cache", group |-> "compute_sanitizer"] >>

\* "for key, config in ENV_CONFIGS.items(): if config['group'] == group:
\*      selected_configs[key] = config"
RECURSIVE SelectGroup(_, _, _)
SelectGroup(selected, group, i) ==
    IF i > Len(ENV_CONFIGS) THEN selected
    ELSE SelectGroup(IF ENV_CONFIGS[i].group = group
                        /\ \A j \in 1..Len(selected) : selected[j] # ENV_CONFIGS[i].key
                     THEN Append(selected, ENV_CONFIGS[i].key)
                     ELSE selected,
                     group, i + 1)

\* the loop over config_groups in run_all_tests
RECURSIVE SelectedConfigs(_, _)
SelectedConfigs(selected, config_groups) ==
    IF config_groups = <<>> THEN selected
    ELSE IF Head(config_groups) = "all"
         THEN [i \in 1..Len(ENV_CONFIGS) |-> ENV_CONFIGS[i].key]
         ELSE SelectedConfigs(SelectGroup(selected, Head(config_groups), 1),
                              Tail(config_groups))

\* str(n).zfill(width)
RECURSIVE ZFill(_, _)
ZFill(text, width) == IF Len(text) >= width THEN text ELSE ZFill(<<"0">> \o text, width)

\* a plausible slip: the number is not padded
TestNumberNoPad(counter, total_tests) == NatText(counter)

\* test_number in run_single_test
TestNumber(counter, total_tests) == ZFill(NatText(counter), Len(NatText(total_tests)))

\* output_filename of run_single_test
OutputFilename(number, repo, stem, function) ==
    IF Truthy(function)
    THEN number \o <<"_">> \o repo \o <<"_">> \o stem \o <<"_">> \o function \o DotLog
    ELSE number \o <<"_">> \o repo \o <<"_">> \o stem \o DotLog

\* test_file.stem of the files behind TestNames
TestFileStem(name) == IF name = "tritonbench/a" THEN <<"a">> ELSE <<"b">>

\* "for test_info in self.test_list: self.test_results[test_name] = {...}"
RECURSIVE InitialResults(_, _)
InitialResults(rows, tests) ==
    IF tests = <<>> THEN rows
    ELSE InitialResults(Put(rows, Head(tests), [test_number |-> None, cells |-> <<>>]),
                        Tail(tests))

\* the value run_all_tests stores for a configuration: the elapsed time of
\* a PASSED run, the status otherwise
CellValue(status, elapsed_time) ==
    IF status = "PASSED" THEN [elapsed |-> elapsed_time, status |-> ""]
    ELSE [elapsed |-> -1, status |-> status]

\* a plausible slip: the test number is stored on every return
StoreResultLastNumber(rows, name, env_key, number, status, elapsed_time) ==
    Put(rows, name,
        [test_number |-> number,
         cells |-> Put(Get(rows, name).cells, env_key, CellValue(status, elapsed_time))])

\* the lines of run_all_tests that follow the return of run_single_test
StoreResult(rows, name, env_key, number, status, elapsed_time) ==
    LET row == Get(rows, name)
    IN Put(rows, name,
           [test_number |-> IF row.test_number = None THEN number ELSE row.test_number,
            cells |-> Put(row.cells, env_key, CellValue(status, elapsed_time))])

\* the text csv.writer puts in a cell: None gives the empty cell, a float
\* (whole seconds here) is formatted with "{value:.4f}"
StatusText(status) ==
    CASE status = "FAILED" -> <<"F", "A", "I", "L", "E", "D">>
      [] status = "TIMEOUT" -> <<"T", "I", "M", "E", "O", "U", "T">>
      [] status = "ERROR" -> <<"E", "R", "R", "O", "R">>
      [] OTHER -> <<"N", "/", "A">>

CsvCell(cells, env_key) ==
    IF ~HasKey(cells, env_key) THEN StatusText("N/A")
    ELSE IF Get(cells, env_key).status = ""
         THEN NatText(Get(cells, env_key).elapsed) \o <<".", "0", "0", "0", "0">>
         ELSE StatusText(Get(cells, env_key).status)

\* save_results_csv: the header, then one row for each item of test_results
ResultsCsv(rows) ==
    << [Test_Number |-> <<"T", "e", "s", "t", "_", "N", "u", "m", "b", "e", "r">>,
        Test_Name |-> "Test_Name",
        values |-> [i \in 1..Len(ENV_CONFIGS) |-> ENV_CONFIGS[i].key]] >>
    \o [r \in 1..Len(rows) |->
           [Test_Number |-> IF rows[r].v.test_number = None THEN <<>>
                            ELSE rows[r].v.test_number,
            Test_Name |-> rows[r].k,
            values |-> [i \in 1..Len(ENV_CONFIGS) |->
                           CsvCell(rows[r].v.cells, ENV_CONFIGS[i].key)]]]

\* a plausible slip: the subprocess is left running when the timeout expires
AfterTimeoutNoKill(children, child) == children

\* subprocess.run(..., timeout=300) kills the child and waits for it before
\* it raises TimeoutExpired
AfterTimeout(children, child) == children \ {child}

(***************************************************************************)
(* SpecRunner: run_all_tests on a test_list of up to MaxRunTests entries   *)
(* and on the configuration groups the caller names; every subprocess      *)
(* ends with a return code, runs into the timeout, or cannot be started.   *)
(***************************************************************************)
MaxRunTests == 2

TestNames == {"tritonbench/a", "tritonbench/b"}

GroupWords == {"baseline", "compute_sanitizer", "all"}

\* the seconds a subprocess that ends takes
ElapsedValues == {1, 2}

\* "timeout=300"
Timeout == 300

InitRunner ==
    /\ test_list \in SeqsUpTo(TestNames, MaxRunTests)
    /\ selected_configs = <<>>
    /\ global_test_counter = 0
    /\ test_results = <<>>
    /\ rn_pc = "start"
    /\ rn_env = 0
    /\ rn_test = 0
    /\ rn_children = {}
    /\ rn_runs = <<>>
    /\ results_csv = <<>>
    /\ IdleNorm /\ IdleParse /\ IdleOverhead /\ IdleConfig /\ IdleCsv /\ IdleMain /\ IdleFind /\ IdleSum /\ IdleAblation /\ IdleFormat /\ IdleAsan /\ IdleHeader /\ IdleLayout /\ IdleAgain /\ IdlePrepare

\* run_all_tests up to the first call of run_single_test
RunAllTests(config_groups) ==
    /\ rn_pc = "start"
    /\ IF test_list = <<>>
       THEN /\ rn_pc' = "done"
            /\ UNCHANGED <<selected_configs, test_results, rn_env, rn_test>>
       ELSE /\ test_results' = InitialResults(<<>>, test_list)
            /\ selected_configs' = SelectedConfigs(<<>>, config_groups)
            /\ IF SelectedConfigs(<<>>, config_groups) = <<>>
               THEN rn_pc' = "done" /\ UNCHANGED <<rn_env, rn_test>>
               ELSE rn_pc' = "ready" /\ rn_env' = 1 /\ rn_test' = 1
    /\ UNCHANGED <<test_list, global_test_counter, rn_children, rn_runs, results_csv,
                   exceptRunner>>

\* the end of run_single_test and the lines of run_all_tests up to the next
\* call: the result is stored, the next test or the next configuration
\* (with the counter back at 0) follows
Returned(status, elapsed_time, counter, cause) ==
    LET number == TestNumber(counter, Len(test_list))
    IN /\ test_results' = StoreResult(test_results, test_list[rn_test],
                                      selected_configs[rn_env], number, status, elapsed_time)
       /\ rn_runs' = Append(rn_runs, [env_key |-> selected_configs[rn_env],
                                      index |-> rn_test,
                                      test_number |-> number,
                                      status |-> status,
                                      output_filename |->
                                          OutputFilename(number, tritonbench,
                                              TestFileStem(test_list[rn_test]), None),
                                      elapsed_time |-> elapsed_time,
                                      cause |-> cause])
       /\ IF rn_test < Len(test_list)
          THEN /\ rn_test' = rn_test + 1
               /\ global_test_counter' = counter
               /\ rn_pc' = "ready"
               /\ UNCHANGED rn_env
          ELSE IF rn_env < Len(selected_configs)
               THEN /\ rn_env' = rn_env + 1
                    /\ rn_test' = 1
                    /\ global_test_counter' = 0
                    /\ rn_pc' = "ready"
               ELSE /\ rn_pc' = "done"
                    /\ global_test_counter' = counter
                    /\ UNCHANGED <<rn_env, rn_test>>

\* run_single_test up to subprocess.run, which starts the child and blocks
StartSubprocess ==
    /\ rn_pc = "ready"
    /\ global_test_counter' = global_test_counter + 1
    /\ rn_children' = rn_children \cup {<<rn_env, rn_test>>}
    /\ rn_pc' = "running"
    /\ UNCHANGED <<test_list, selected_configs, test_results, rn_env, rn_test, rn_runs,
                   results_csv, exceptRunner>>

\* subprocess.run raises before a child exists (the command is not found),
\* no second having passed: "except Exception" gives ERROR
StartFails ==
    /\ rn_pc = "ready"
    /\ Returned("ERROR", 0, global_test_counter + 1, "exception")
    /\ UNCHANGED <<test_list, selected_configs, rn_children, results_csv, exceptRunner>>

\* open(output_file, "w") raises (the name is not one a file can be created
\* under: a function name with a '/', a name too long): "except Exception"
\* sets ERROR, then open(output_file, "a"), outside the try, raises for the
\* same name, and the exception leaves run_single_test and run_all_tests
LogFileFails ==
    /\ rn_pc = "ready"
    /\ global_test_counter' = global_test_counter + 1
    /\ rn_pc' = "raised"
    /\ UNCHANGED <<test_list, selected_configs, test_results, rn_env, rn_test, rn_children,
                   rn_runs, results_csv, exceptRunner>>

\* the child ends with return code rc
SubprocessExits(rc, elapsed_time) ==
    /\ rn_pc = "running"
    /\ rn_children' = rn_children \ {<<rn_env, rn_test>>}
    /\ Returned(IF rc = 0 THEN "PASSED" ELSE "FAILED", elapsed_time, global_test_counter,
                IF rc = 0 THEN "returncode 0" ELSE "returncode not 0")
    /\ UNCHANGED <<test_list, selected_configs, results_csv, exceptRunner>>

\* 300 seconds have passed: TimeoutExpired
SubprocessTimeout ==
    /\ rn_pc = "running"
    /\ rn_children' = AfterTimeout(rn_children, <<rn_env, rn_test>>)
    /\ Returned("TIMEOUT", Timeout, global_test_counter, "timeout")
    /\ UNCHANGED <<test_list, selected_configs, results_csv, exceptRunner>>

\* main after run_all_tests has returned: save_results_csv
SaveResultsCsv ==
    /\ rn_pc = "done"
    /\ results_csv' = ResultsCsv(test_results)
    /\ rn_pc' = "saved"
    /\ UNCHANGED <<test_list, selected_configs, global_test_counter, test_results, rn_env,
                   rn_test, rn_children, rn_runs, exceptRunner>>

NextRunner ==
    \/ \E config_groups \in SeqsUpTo(GroupWords, 2) : RunAllTests(config_groups)
    \/ StartSubprocess
    \/ StartFails
    \/ LogFileFails
    \/ \E rc \in {0, 1}, e \in ElapsedValues : SubprocessExits(rc, e)
    \/ SubprocessTimeout
    \/ SaveResultsCsv

SpecRunner == InitRunner /\ [][NextRunner]_vars

\* C15: the runner never has two test subprocesses alive at once: the
\* subprocess of a pair is started only when no subprocess is alive, the
\* one of the previous pair having ended or been stopped by the timeout
C15_OneSubprocessAtATime ==
    [][/\ Cardinality(rn_children') <= 1
       /\ (rn_children' \ rn_children # {}) =>
              /\ rn_children = {}
              /\ rn_runs # <<>> =>
                     rn_runs[Len(rn_runs)].status \in {"PASSED", "FAILED", "TIMEOUT", "ERROR"}]_vars

\* a subprocess is alive for the second pair after the one of the first
\* pair was stopped by the timeout
C15_Witness ==
    /\ rn_pc = "running"
    /\ Len(rn_runs) = 1
    /\ rn_runs[1].status = "TIMEOUT"
    /\ rn_children = {<<1, 2>>}

\* a cell that float() turns into a number
IsNumber(cell) == ~NoNumber(cell)

\* C16: a row whose baseline value is 0 adds no entry to the ratio list
\* (and the loop goes on), and the other rows are unaffected: the ratios
\* already in the list stay as they are, and a row with two numbers and a
\* positive baseline appends sanitizer/baseline whatever came before
C16_ZeroBaselineExcluded ==
    [][oh_n' = oh_n + 1 =>
          LET s == oh_row'.sanitizer
              b == oh_row'.baseline
          IN /\ (IsNumber(b) /\ ToMilli(Strip(b)) = 0) => oh_ratios' = oh_ratios
             /\ SubSeq(oh_ratios', 1, Len(oh_ratios)) = oh_ratios
             /\ (IsNumber(s) /\ IsNumber(b) /\ ToMilli(Strip(b)) > 0) =>
                    oh_ratios' = Append(oh_ratios, [num |-> ToMilli(Strip(s)),
                                                    den |-> ToMilli(Strip(b))])]_vars

\* the row 10.0 over 0.000 has just been read and has added nothing to the
\* ratio the row before it had added
C16_Witness ==
    /\ oh_n = 2
    /\ oh_row = [sanitizer |-> <<" ", "1", "0", ".", "0">>,
                 baseline |-> <<"0", ".", "0", "0", "0">>]
    /\ oh_ratios = <<[num |-> 10000, den |-> 2500]>>

\* the text before the first "[" of s, s itself if it holds none
BeforeBracket(s) ==
    IF \E i \in 1..Len(s) : s[i] = "["
    THEN SubSeq(s, 1, (CHOOSE i \in 1..Len(s) : s[i] = "[" /\ \A j \in 1..(i - 1) : s[j] # "[") - 1)
    ELSE s

\* the lengths k of a leading "<digits>_" prefix of s: k - 1 digits and "_"
PrefixLengths(s) ==
    {k \in 2..Len(s) : s[k] = "_" /\ \A i \in 1..(k - 1) : IsDigit(s[i])}

\* C17: normalize_test_name returns the text before the first "[" (the
\* whole identifier if there is none) without one leading "<digits>_"
\* prefix, and changes nothing else
C17_NormalizeDefinition ==
    norm_calls >= 1 =>
        LET cut == BeforeBracket(norm_prev)
        IN IF PrefixLengths(cut) = {}
           THEN norm_out = cut
           ELSE \E k \in PrefixLengths(cut) : norm_out = SubSeq(cut, k + 1, Len(cut))

\* "01_a[" has given "a" (the shape of '01_suite/test[param]')
C17_Witness ==
    /\ norm_calls = 1
    /\ norm_in = <<"0", "1", "_", "a", "[">>
    /\ norm_out = <<"a">>

(***************************************************************************)
(* SpecSum: the totals of up to MaxRecords records, standing in one log    *)
(* file or in two, and the totals of the same records in another order     *)
(* (the records of the one file permuted, or the two files processed in    *)
(* the other order).                                                       *)
(***************************************************************************)
MaxRecords == 3

T01 == <<"0", ".", "1">>
T05 == <<"0", ".", "5">>
T15 == <<"1", ".", "5">>

SumIds == {NameA, NameB}

SumTimes == {T01, T05, T15}

\* a plausible slip: the total is the first measurement alone
FloatTotalsFirstOnly(all) ==
    [i \in 1..Len(all) |->
        [k |-> all[i].k,
         v |-> [total_ms |-> float_value(all[i].v[1].time_ms),
                count |-> Len(all[i].v),
                measurements |-> all[i].v]]]

\* the totals loop of calculate_totals and of analyze_configuration, the
\* total being the float that sum() returns
FloatTotals(all) ==
    [i \in 1..Len(all) |->
        [k |-> all[i].k,
         v |-> [total_ms |-> float_sum([j \in 1..Len(all[i].v) |-> all[i].v[j].time_ms]),
                count |-> Len(all[i].v),
                measurements |-> all[i].v]]]

\* the log file that gives the records recs: a 'Test:' line and a
\* '[liger][triton]' line for each
RECURSIVE RecordLines(_)
RecordLines(recs) ==
    IF recs = <<>> THEN <<>>
    ELSE <<Line(None, Head(recs).id, None, <<>>),
           Line(None, None, None, <<Seg("liger", "k1", Head(recs).time)>>)>>
         \o RecordLines(Tail(recs))

RecordFile(recs) == LogFile("ok", RecordLines(recs))

\* analyze_configuration over the log files, up to "return totals"
SumAnalyze(files) == FloatTotals(MergeFiles(FALSE, <<>>, files))

\* the log files of the records: one, or two cut after the first k records
FilesOf(recs, k) ==
    IF k = 0 THEN <<RecordFile(recs)>>
    ELSE <<RecordFile(Take(recs, k)), RecordFile(Drop(recs, k))>>

InitSum ==
    /\ sum_records = <<>>
    /\ sum_split = 0
    /\ sum_permuted = <<>>
    /\ sum_totals = <<>>
    /\ sum_permuted_totals = <<>>
    /\ sum_pc = "build"
    /\ IdleNorm /\ IdleParse /\ IdleOverhead /\ IdleConfig /\ IdleCsv /\ IdleMain /\ IdleFind /\ IdleRunner /\ IdleAblation /\ IdleFormat /\ IdleAsan /\ IdleHeader /\ IdleLayout /\ IdleAgain /\ IdlePrepare

\* one more record in the log
AddRecord(id, time) ==
    /\ sum_pc = "build"
    /\ Len(sum_records) < MaxRecords
    /\ sum_records' = Append(sum_records, [id |-> id, time |-> time])
    /\ UNCHANGED <<sum_split, sum_permuted, sum_totals, sum_permuted_totals, sum_pc, exceptSum>>

\* the records of one log file, and the same records in the order perm
TotalsOfPermutation(perm) ==
    /\ sum_pc = "build"
    /\ sum_records # <<>>
    /\ sum_split' = 0
    /\ sum_permuted' = [i \in 1..Len(sum_records) |-> sum_records[perm[i]]]
    /\ sum_totals' = SumAnalyze(FilesOf(sum_records, 0))
    /\ sum_permuted_totals' = SumAnalyze(FilesOf(sum_permuted', 0))
    /\ sum_pc' = "done"
    /\ UNCHANGED <<sum_records, exceptSum>>

\* the records in two log files, processed in the one order and in the other
TotalsOfFileOrders(k) ==
    /\ sum_pc = "build"
    /\ k \in 1..(Len(sum_records) - 1)
    /\ sum_split' = k
    /\ sum_permuted' = Drop(sum_records, k) \o Take(sum_records, k)
    /\ sum_totals' = SumAnalyze(FilesOf(sum_records, k))
    /\ sum_permuted_totals' = SumAnalyze(FilesOf(sum_permuted', Len(sum_records) - k))
    /\ sum_pc' = "done"
    /\ UNCHANGED <<sum_records, exceptSum>>

NextSum ==
    \/ \E id \in SumIds, time \in SumTimes : AddRecord(id, time)
    \/ \E perm \in IterationOrders(1..Len(sum_records)) : TotalsOfPermutation(perm)
    \/ \E k \in 1..MaxRecords : TotalsOfFileOrders(k)

SpecSum == InitSum /\ [][NextSum]_vars

\* a totals dict as a map from test identifier to (total, count)
TotalCountMap(d) ==
    {[k |-> d[i].k, total |-> d[i].v.total_ms, count |-> d[i].v.count] : i \in 1..Len(d)}

\* the times summed for identifier k, in the order they are summed
TimesOf(d, k) == [j \in 1..Len(Get(d, k).measurements) |-> Get(d, k).measurements[j].time_ms]

\* C18 as stated: for every sequence of records and every permutation of it
\* (a permutation of the order of the log files too), the map from test
\* identifier to (total, count) is the same
C18_OrderIndependent ==
    sum_pc = "done" => TotalCountMap(sum_totals) = TotalCountMap(sum_permuted_totals)

\* C18: for every sequence of records and every permutation of it (a
\* permutation of the order of the log files too), the identifiers and
\* their counts are the same, the times summed for an identifier are the
\* same up to their order, and its total is the same whenever no addition
\* of either sum is rounded
C18_OrderIndependentUnlessRounded ==
    sum_pc = "done" =>
        /\ Keys(sum_totals) = Keys(sum_permuted_totals)
        /\ \A k \in Keys(sum_totals) :
              LET a == Get(sum_totals, k)
                  b == Get(sum_permuted_totals, k)
              IN /\ a.count = b.count
                 /\ \E p \in IterationOrders(1..a.count) :
                        \A j \in 1..a.count :
                            TimesOf(sum_permuted_totals, k)[j] = TimesOf(sum_totals, k)[p[j]]
                 /\ (~SumRounds(TimesOf(sum_totals, k)) /\ ~SumRounds(TimesOf(sum_permuted_totals, k)))
                        => a.total_ms = b.total_ms

\* 'a' was recorded with 0.5 and then 1.5 ms, the permutation has 1.5 first:
\* both totals are the float 2.0 and both counts are 2
C18_Witness ==
    /\ sum_pc = "done"
    /\ sum_records = <<[id |-> NameA, time |-> T05], [id |-> NameB, time |-> T01],
                       [id |-> NameA, time |-> T15]>>
    /\ sum_permuted = <<[id |-> NameA, time |-> T15], [id |-> NameB, time |-> T01],
                        [id |-> NameA, time |-> T05]>>
    /\ Get(sum_totals, NameA).total_ms = float_value(2000)
    /\ Get(sum_permuted_totals, NameA).total_ms = float_value(2000)
    /\ Get(sum_permuted_totals, NameA).count = 2
    /\ ~SumRounds(TimesOf(sum_totals, NameA))

\* the number of records in results
RecordCount(res) == SumSeq([i \in 1..Len(res) |-> Len(res[i].v)])

\* the line matches both pattern1 and pattern2
MatchesBoth(l) == FirstSeg(l, "liger") # NoSeg /\ FirstSeg(l, "profiler") # NoSeg

LigerRecord(l) ==
    [kernel |-> FirstSeg(l, "liger").kernel, time_ms |-> ToMilli(FirstSeg(l, "liger").time)]

\* C19: every line read adds at most one record; a line that matches both
\* the '[liger][triton]' and the '[triton-profiler]' pattern adds, under the
\* current test identifier, the record of the '[liger][triton]' match and
\* no other
C19_FirstMatchWins ==
    [][lines_read' # lines_read =>
          LET l == lines_read'[Len(lines_read')]
          IN /\ RecordCount(results') <= RecordCount(results) + 1
             /\ (~is_triton_sanitizer /\ MatchesBoth(l)) =>
                    IF Truthy(test_name') /\ FloatOk(FirstSeg(l, "liger").time)
                    THEN results' = DictAppend(results, test_name', LigerRecord(l))
                    ELSE results' = results]_vars

\* after 'Test: a', the line with a [triton-profiler] piece (k2, 3.5) and a
\* [liger][triton] piece (k1, 2.5) has given the one record k1, 2.5
C19_Witness ==
    /\ ~is_triton_sanitizer
    /\ lines_read = <<Line(None, NameA, None, <<>>),
                      Line(None, None, None,
                           <<Seg("profiler", "k2", T35), Seg("liger", "k1", T25)>>)>>
    /\ results = <<[k |-> NameA, v |-> <<[kernel |-> "k1", time_ms |-> 2500]>>]>>

(***************************************************************************)
(* SpecAblation: one call of analyze_configuration of                      *)
(* analyze_ablation_kernel_time.py on up to MaxLogFiles log files drawn    *)
(* from SampleLogFiles, in an order find_log_files can return.             *)
(***************************************************************************)
MaxLogFiles == 3

N1 == <<"1">>
BaseY == <<"y">>
LineVizBad == Line(None, None, None, <<Seg("viz", "k1", TBad)>>)

SampleLogFiles ==
    { NamedFile(N01, BaseTb, LogFile("ok", <<LineTestA, LineViz20>>)),              \* 01_tritonbench_x.log
      NamedFile(N1, BaseY, LogFile("ok", <<LineTestA, LineViz20, LineViz20>>)),   \* 1_y.log
      NamedFile(N01, BaseY, LogFile("ok", <<LineTestA, LineViz20, LineVizBad>>)), \* 01_y.log in a subdirectory
      NamedFile(N1, BaseTb, LogFile("unreadable", <<>>)),                           \* 1_tritonbench_x.log
      NamedFile(N02, BaseLiger, LogFile("ok", <<LineTestB, LineViz20>>)),          \* 02_liger_kernel_test_a_test_b.log
      NamedFile(None, BaseRun, LogFile("ok", <<LineTestA, LineViz20>>)) }          \* run.log

InitAblation ==
    /\ ab_log_files = <<>>
    /\ ab_index = 0
    /\ file_totals = <<>>
    /\ ab_pc = "find"
    /\ ab_ret = NoneDict
    /\ IdleNorm /\ IdleParse /\ IdleOverhead /\ IdleConfig /\ IdleCsv /\ IdleMain /\ IdleFind /\ IdleRunner /\ IdleSum /\ IdleFormat /\ IdleAsan /\ IdleHeader /\ IdleLayout /\ IdleAgain /\ IdlePrepare

\* one more file in the list find_log_files returns: the list is sorted by
\* file number, files of one number in any order, run.log last
ListLogFile(f) ==
    /\ ab_pc = "find"
    /\ Len(ab_log_files) < MaxLogFiles
    /\ \A i \in 1..Len(ab_log_files) :
          /\ ab_log_files[i].number # None
          /\ f.number # None => ToInt(ab_log_files[i].number) <= ToInt(f.number)
    /\ ab_log_files' = Append(ab_log_files, f)
    /\ UNCHANGED <<ab_index, file_totals, ab_pc, ab_ret, exceptAblation>>

\* log_files = find_log_files(...); "if not log_files: return None";
\* "file_totals = {}"
AblationFindLogFiles ==
    /\ ab_pc = "find"
    /\ ab_pc' = IF ab_log_files = <<>> THEN "returned" ELSE "loop"
    /\ UNCHANGED <<ab_log_files, ab_index, file_totals, ab_ret, exceptAblation>>

\* one turn of "for log_file in log_files"
AblationLogFile ==
    /\ ab_pc = "loop"
    /\ ab_index < Len(ab_log_files)
    /\ ab_index' = ab_index + 1
    /\ file_totals' = StoreFileTotal(file_totals, ab_log_files[ab_index + 1])
    /\ UNCHANGED <<ab_log_files, ab_pc, ab_ret, exceptAblation>>

\* "return file_totals"
AblationReturn ==
    /\ ab_pc = "loop"
    /\ ab_index = Len(ab_log_files)
    /\ ab_ret' = SomeDict(file_totals)
    /\ ab_pc' = "returned"
    /\ UNCHANGED <<ab_log_files, ab_index, file_totals, exceptAblation>>

NextAblation ==
    \/ \E f \in SampleLogFiles : ListLogFile(f)
    \/ AblationFindLogFiles
    \/ AblationLogFile
    \/ AblationReturn

SpecAblation == InitAblation /\ [][NextAblation]_vars

\* the entry of one log file alone
EntryOfFile(f) ==
    [file_name |-> f.base,
     total_ms |-> FileTotal(ParseFile(TRUE, f.file).ret),
     count |-> FileCount(ParseFile(TRUE, f.file).ret)]

\* the position in log_files of the last file that has the file number of
\* the file at position i
LastOfNumber(i) ==
    CHOOSE j \in i..Len(ab_log_files) :
        /\ ab_log_files[j].number # None
        /\ ToInt(ab_log_files[j].number) = ToInt(ab_log_files[i].number)
        /\ \A m \in (j + 1)..Len(ab_log_files) :
              ab_log_files[m].number = None
              \/ ToInt(ab_log_files[m].number) # ToInt(ab_log_files[i].number)

MaxWords == 2

TestPrefix == <<"t", "e", "s", "t", "_">>

NameWords == {<<"t", "e", "s", "t">>, <<"a">>}

\* one to n words joined by '_'
RECURSIVE JoinedWords(_)
JoinedWords(n) ==
    IF n = 1 THEN NameWords
    ELSE JoinedWords(n - 1)
         \cup {s \o <<"_">> \o w : s \in JoinedWords(n - 1), w \in NameWords}

\* names that begin with 'test_'
TestPrefixed == {TestPrefix \o s : s \in JoinedWords(MaxWords)}

\* f"{repo}/{test_file_stem}/{test_function}" and f"{repo}/{test_file_stem}"
\* of prepare_test_list
ListedTestName(repo, stem, function) ==
    IF function = None THEN repo \o <<"/">> \o stem
    ELSE repo \o <<"/">> \o stem \o <<"/">> \o function

\* re.search(r'^(\d+)_(.+)\.log$', log_file.name) matches
FileNameMatches(name) ==
    HasNumberPrefix(name) /\ EndsWith(name, DotLog) /\ Len(name) > DigitRun(name) + 1 + Len(DotLog)

\* match.group(2)
BaseName(name) == Take(Drop(name, DigitRun(name) + 1), Len(name) - DigitRun(name) - 1 - Len(DotLog))

\* a test file discover_tests found (test_*.py for the pytest repositories,
\* *.py for tritonbench) and a function of it: one discover_test_functions
\* found (it begins with 'test_'), one a whitelist names, or none
InitFormat ==
    /\ fmt_repo \in {liger_kernel, flag_gems, tritonbench}
    /\ fmt_stem \in (IF fmt_repo = tritonbench THEN JoinedWords(MaxWords) \cup TestPrefixed
                     ELSE TestPrefixed)
    /\ fmt_function \in (IF fmt_repo = tritonbench THEN {None}
                         ELSE {None} \cup TestPrefixed \cup JoinedWords(MaxWords))
    /\ fmt_test_name = <<>>
    /\ fmt_log_name = <<>>
    /\ fmt_formatted = <<>>
    /\ fmt_pc = "discovered"
    /\ IdleNorm /\ IdleParse /\ IdleOverhead /\ IdleConfig /\ IdleCsv /\ IdleMain /\ IdleFind /\ IdleRunner /\ IdleSum /\ IdleAblation /\ IdleAsan /\ IdleHeader /\ IdleLayout /\ IdleAgain /\ IdlePrepare

\* prepare_test_list appends the entry
ListTest ==
    /\ fmt_pc = "discovered"
    /\ fmt_test_name' = ListedTestName(fmt_repo, fmt_stem, fmt_function)
    /\ fmt_pc' = "listed"
    /\ UNCHANGED <<fmt_repo, fmt_stem, fmt_function, fmt_log_name, fmt_formatted, exceptFormat>>

\* run_single_test names the log file (test 01)
NameLogFile ==
    /\ fmt_pc = "listed"
    /\ fmt_log_name' = OutputFilename(N01, fmt_repo, fmt_stem, fmt_function)
    /\ fmt_pc' = "logged"
    /\ UNCHANGED <<fmt_repo, fmt_stem, fmt_function, fmt_test_name, fmt_formatted, exceptFormat>>

\* analyze_configuration takes base_name from the file name and
\* export_to_csv formats it
FormatBaseName ==
    /\ fmt_pc = "logged"
    /\ FileNameMatches(fmt_log_name)
    /\ fmt_formatted' = format_test_name(BaseName(fmt_log_name))
    /\ fmt_pc' = "formatted"
    /\ UNCHANGED <<fmt_repo, fmt_stem, fmt_function, fmt_test_name, fmt_log_name, exceptFormat>>

NextFormat ==
    \/ ListTest
    \/ NameLogFile
    \/ FormatBaseName

SpecFormat == InitFormat /\ [][NextFormat]_vars

\* C21 (as stated): for liger_kernel and flag_gems, every stem s and every
\* function f that begin with 'test_', format_test_name('<repo>_<s>_<f>')
\* is '<repo>/<s>/<f>', the test_name the runner gave the test; for
\* tritonbench and every stem s, format_test_name('tritonbench_<s>') is
\* 'tritonbench/<s>'
C21_FormatInvertsNaming ==
    fmt_pc = "formatted" =>
        /\ (/\ fmt_repo \in {liger_kernel, flag_gems}
            /\ fmt_function # None
            /\ StartsWith(fmt_stem, TestPrefix)
            /\ StartsWith(fmt_function, TestPrefix))
               => /\ fmt_formatted = fmt_repo \o <<"/">> \o fmt_stem \o <<"/">> \o fmt_function
                  /\ fmt_formatted = fmt_test_name
        /\ fmt_repo = tritonbench =>
               /\ fmt_formatted = tritonbench \o <<"/">> \o fmt_stem
               /\ fmt_formatted = fmt_test_name

\* the pair run_all_tests reaches as its k-th call of run_single_test: the
\* configurations in selection order, the tests in test_list order
PairOfCall(k) ==
    [env_key |-> selected_configs[((k - 1) \div Len(test_list)) + 1],
     index |-> ((k - 1) % Len(test_list)) + 1]

\* C22: run_all_tests runs every selected (configuration, test) pair
\* exactly once, configurations in selection order and tests in test_list
\* order, whatever the outcome of earlier pairs: the k-th result is the one
\* of the k-th pair, and the run ends only after as many executions as
\* there are pairs, none skipped
C22_EveryPairOnce ==
    /\ \A k \in 1..Len(rn_runs) :
           /\ rn_runs[k].env_key = PairOfCall(k).env_key
           /\ rn_runs[k].index = PairOfCall(k).index
    /\ rn_pc \in {"done", "raised", "saved"} =>
           Len(rn_runs) = Len(selected_configs) * Len(test_list)

(***************************************************************************)
(* AddressSanitizerRunner (end_to_end/run_address_sanitizer_amd.py)        *)
(***************************************************************************)
\* ENV_CONFIGS = get_configs_by_group("baseline"): the four baseline
\* configurations of utils/test_registry.py, each with its "env"
AsanConfigs ==
    << [key |-> "baseline_compile_no_cache",
        env |-> << [k |-> "TRITON_ALWAYS_COMPILE", v |-> "1"],
                   [k |-> "PYTORCH_NO_CUDA_MEMORY_CACHING", v |-> "1"] >>],
       [key |-> "baseline_no_compile_with_cache",
        env |-> << [k |-> "TRITON_ALWAYS_COMPILE", v |-> "0"],
                   [k |-> "PYTORCH_NO_CUDA_MEMORY_CACHING", v |-> "0"] >>],
       [key |-> "baseline_compile_with_cache",
        env |-> << [k |-> "TRITON_ALWAYS_COMPILE", v |-> "1"],
                   [k |-> "PYTORCH_NO_CUDA_MEMORY_CACHING", v |-> "0"] >>],
       [key |-> "baseline_no_compile_no_cache",
        env |-> << [k |-> "TRITON_ALWAYS_COMPILE", v |-> "0"],
                   [k |-> "PYTORCH_NO_CUDA_MEMORY_CACHING", v |-> "1"] >>] >>

AsanConfig(env_key) ==
    AsanConfigs[CHOOSE i \in 1..Len(AsanConfigs) : AsanConfigs[i].key = env_key]

\* MEMORY_PROFILE_PREFIX.split()
MEMORY_PROFILE_PREFIX == <<"/usr/bin/time", "-v">>

\* REPO_CONFIGS[repo]["test_command"].split()
TestCommand(repo) ==
    IF repo = "tritonbench" THEN <<"python">> ELSE <<"pytest", "-s", "--assert=plain">>

\* dict.update
RECURSIVE DictUpdate(_, _)
DictUpdate(d, other) ==
    IF other = <<>> THEN d
    ELSE DictUpdate(Put(d, Head(other).k, Head(other).v), Tail(other))

\* dict.pop(key, None)
DictPop(d, key) == SelectSeq(d, LAMBDA item : item.k # key)

\* a plausible slip: the AMD variables are set whatever the configuration
ConvertCachingAlways(env) ==
    DictPop(Put(Put(Put(Put(env, "PYTORCH_NO_HIP_MEMORY_CACHING", "1"),
                        "HSA_DISABLE_FRAGMENT_ALLOCATOR", "1"),
                    "AMD_PYTORCH_NO_CUDA_MEMORY_CACHING", "1"),
                "AMDGCN_USE_BUFFER_OPS", "0"),
            "PYTORCH_NO_CUDA_MEMORY_CACHING")

\* "Convert CUDA to HIP memory caching env vars for AMD"
ConvertCaching(env) ==
    DictPop(IF HasKey(env, "PYTORCH_NO_CUDA_MEMORY_CACHING")
               /\ Get(env, "PYTORCH_NO_CUDA_MEMORY_CACHING") = "1"
            THEN Put(Put(Put(Put(env, "PYTORCH_NO_HIP_MEMORY_CACHING", "1"),
                             "HSA_DISABLE_FRAGMENT_ALLOCATOR", "1"),
                         "AMD_PYTORCH_NO_CUDA_MEMORY_CACHING", "1"),
                     "AMDGCN_USE_BUFFER_OPS", "0")
            ELSE env,
            "PYTORCH_NO_CUDA_MEMORY_CACHING")

\* env["PYTHONPATH"] with the project root put first
WithPythonPath(env) ==
    IF HasKey(env, "PYTHONPATH")
    THEN Put(env, "PYTHONPATH", "/root/project:" \o Get(env, "PYTHONPATH"))
    ELSE Put(env, "PYTHONPATH", "/root/project")

\* env of run_single_test
AsanEnvironment(environ, env_key) ==
    WithPythonPath(
        ConvertCaching(
            Put(Put(DictUpdate(environ, AsanConfig(env_key).env),
                    "TRITON_ENABLE_ASAN", "1"),
                "HSA_XNACK", "1")))

\* cmd of run_single_test, for the test file test_a.py
AsanCommand(repo, function, memory) ==
    LET cmd == IF repo = "tritonbench" THEN <<"python", "test_a.py">>
               ELSE IF function # ""
                    THEN <<"pytest", "-s", "--assert=plain", "test_a.py::" \o function>>
                    ELSE TestCommand(repo) \o <<"test_a.py">>
    IN IF memory THEN MEMORY_PROFILE_PREFIX \o cmd ELSE cmd

(***************************************************************************)
(* SpecAsan: one call of run_single_test, for each baseline configuration, *)
(* each kind of test and a sample of inherited environments                *)
(***************************************************************************)
\* the values a variable has in os.environ; "" stands for its absence
InheritedValues == {"", "0", "1"}

InheritedVariables ==
    <<"PYTORCH_NO_CUDA_MEMORY_CACHING", "PYTORCH_NO_HIP_MEMORY_CACHING",
      "AMDGCN_USE_BUFFER_OPS", "TRITON_ENABLE_ASAN", "PYTHONPATH">>

\* os.environ with the variables set as "values" says
RECURSIVE Environ(_, _)
Environ(values, i) ==
    IF i > Len(InheritedVariables) THEN <<>>
    ELSE (IF values[i] = "" THEN <<>>
          ELSE << [k |-> InheritedVariables[i], v |-> values[i]] >>)
         \o Environ(values, i + 1)

InitAsan ==
    /\ \E values \in [1..Len(InheritedVariables) -> InheritedValues] :
           asan_environ = Environ(values, 1)
    /\ asan_env_key \in {AsanConfigs[i].key : i \in 1..Len(AsanConfigs)}
    /\ asan_repo \in {"liger_kernel", "flag_gems", "tritonbench"}
    /\ asan_function \in IF asan_repo = "tritonbench" THEN {""} ELSE {"", "test_x"}
    /\ enable_memory \in BOOLEAN
    /\ asan_env = <<>>
    /\ asan_cmd = <<>>
    /\ asan_status = ""
    /\ asan_pc = "start"
    /\ IdleNorm /\ IdleParse /\ IdleOverhead /\ IdleConfig /\ IdleCsv /\ IdleMain /\ IdleFind /\ IdleRunner /\ IdleSum /\ IdleAblation /\ IdleFormat /\ IdleHeader /\ IdleLayout /\ IdleAgain /\ IdlePrepare

\* run_single_test up to subprocess.run
AsanStartSubprocess ==
    /\ asan_pc = "start"
    /\ asan_env' = AsanEnvironment(asan_environ, asan_env_key)
    /\ asan_cmd' = AsanCommand(asan_repo, asan_function, enable_memory)
    /\ asan_pc' = "running"
    /\ UNCHANGED <<asan_environ, asan_env_key, asan_repo, asan_function, enable_memory,
                   asan_status, exceptAsan>>

\* the child ends with return code rc
AsanSubprocessExits(rc) ==
    /\ asan_pc = "running"
    /\ asan_status' = IF rc = 0 THEN "PASSED" ELSE "FAILED"
    /\ asan_pc' = "returned"
    /\ UNCHANGED <<asan_environ, asan_env_key, asan_repo, asan_function, enable_memory,
                   asan_env, asan_cmd, exceptAsan>>

\* TimeoutExpired
AsanSubprocessTimeout ==
    /\ asan_pc = "running"
    /\ asan_status' = "TIMEOUT"
    /\ asan_pc' = "returned"
    /\ UNCHANGED <<asan_environ, asan_env_key, asan_repo, asan_function, enable_memory,
                   asan_env, asan_cmd, exceptAsan>>

NextAsan ==
    \/ AsanStartSubprocess
    \/ \E rc \in {0, 1} : AsanSubprocessExits(rc)
    \/ AsanSubprocessTimeout

SpecAsan == InitAsan /\ [][NextAsan]_vars

\* the variables the runner sets for AMD, with the values it gives them
AmdVariables ==
    << [k |-> "PYTORCH_NO_HIP_MEMORY_CACHING", v |-> "1"],
       [k |-> "HSA_DISABLE_FRAGMENT_ALLOCATOR", v |-> "1"],
       [k |-> "AMD_PYTORCH_NO_CUDA_MEMORY_CACHING", v |-> "1"],
       [k |-> "AMDGCN_USE_BUFFER_OPS", v |-> "0"] >>

\* variable k is in env as it was in os.environ
AsInherited(k) ==
    /\ HasKey(asan_env, k) <=> HasKey(asan_environ, k)
    /\ HasKey(asan_env, k) => Get(asan_env, k) = Get(asan_environ, k)

\* C23: every subprocess environment built by run_single_test has
\* TRITON_ENABLE_ASAN=1 and HSA_XNACK=1 and no PYTORCH_NO_CUDA_MEMORY_CACHING;
\* the four AMD variables are set by the runner exactly for the
\* configurations whose PYTORCH_NO_CUDA_MEMORY_CACHING is "1" (for the
\* others they stay as inherited); and the command starts with
\* /usr/bin/time -v exactly when memory profiling was requested
C23_AsanEnvironment ==
    asan_pc \in {"running", "returned"} =>
        /\ HasKey(asan_env, "TRITON_ENABLE_ASAN") /\ Get(asan_env, "TRITON_ENABLE_ASAN") = "1"
        /\ HasKey(asan_env, "HSA_XNACK") /\ Get(asan_env, "HSA_XNACK") = "1"
        /\ ~HasKey(asan_env, "PYTORCH_NO_CUDA_MEMORY_CACHING")
        /\ \A i \in 1..Len(AmdVariables) :
               IF Get(AsanConfig(asan_env_key).env, "PYTORCH_NO_CUDA_MEMORY_CACHING") = "1"
               THEN /\ HasKey(asan_env, AmdVariables[i].k)
                    /\ Get(asan_env, AmdVariables[i].k) = AmdVariables[i].v
               ELSE AsInherited(AmdVariables[i].k)
        /\ enable_memory <=> (/\ Len(asan_cmd) >= 2
                              /\ SubSeq(asan_cmd, 1, 2) = MEMORY_PROFILE_PREFIX)

\* a pytest function run with memory profiling under a configuration that
\* disables caching, from an environment that said the opposite
C23_Witness ==
    /\ asan_pc = "running"
    /\ asan_env_key = "baseline_compile_no_cache"
    /\ HasKey(asan_environ, "PYTORCH_NO_CUDA_MEMORY_CACHING")
    /\ Get(asan_environ, "PYTORCH_NO_CUDA_MEMORY_CACHING") = "0"
    /\ HasKey(asan_environ, "AMDGCN_USE_BUFFER_OPS")
    /\ Get(asan_environ, "AMDGCN_USE_BUFFER_OPS") = "1"
    /\ enable_memory
    /\ asan_function = "test_x"

(***************************************************************************)
(* SpecNumbering: run_all_tests on test lists long enough for the test     *)
(* numbers to be padded; every subprocess ends with return code 0 after a  *)
(* second, or the log file cannot be opened                                *)
(***************************************************************************)
MaxNumbered == 11

\* a test list of n entries over TestNames
NumberedList(n) == [i \in 1..n |-> IF i % 2 = 1 THEN "tritonbench/a" ELSE "tritonbench/b"]

InitNumbering ==
    /\ test_list \in {NumberedList(n) : n \in (MaxNumbered - 2)..MaxNumbered}
    /\ selected_configs = <<>>
    /\ global_test_counter = 0
    /\ test_results = <<>>
    /\ rn_pc = "start"
    /\ rn_env = 0
    /\ rn_test = 0
    /\ rn_children = {}
    /\ rn_runs = <<>>
    /\ results_csv = <<>>
    /\ IdleNorm /\ IdleParse /\ IdleOverhead /\ IdleConfig /\ IdleCsv /\ IdleMain /\ IdleFind /\ IdleSum /\ IdleAblation /\ IdleFormat /\ IdleAsan /\ IdleHeader /\ IdleLayout /\ IdleAgain /\ IdlePrepare

NextNumbering ==
    \/ \E config_groups \in SeqsUpTo(GroupWords, 2) : RunAllTests(config_groups)
    \/ StartSubprocess
    \/ SubprocessExits(0, 1)
    \/ LogFileFails
    \/ SaveResultsCsv

SpecNumbering == InitNumbering /\ [][NextNumbering]_vars

\* the digits a log file name begins with
NumericPrefix(name) == Take(name, DigitRun(name))

\* C24: the test counter restarts for each configuration, so the i-th entry
\* of test_list gets the test number i, zero-padded to the width of the
\* total, and the same numeric prefix of its log file name, in every
\* configuration; within one configuration all test numbers are distinct
C24_SameNumberEveryConfiguration ==
    \A k \in 1..Len(rn_runs) :
        /\ Len(rn_runs[k].test_number) = Len(NatText(Len(test_list)))
        /\ \A d \in 1..Len(rn_runs[k].test_number) : IsDigit(rn_runs[k].test_number[d])
        /\ ToInt(rn_runs[k].test_number) = rn_runs[k].index
        /\ NumericPrefix(rn_runs[k].output_filename) = rn_runs[k].test_number
        /\ \A j \in 1..Len(rn_runs) :
               /\ rn_runs[j].index = rn_runs[k].index =>
                      /\ rn_runs[j].test_number = rn_runs[k].test_number
                      /\ NumericPrefix(rn_runs[j].output_filename)
                             = NumericPrefix(rn_runs[k].output_filename)
               /\ (j # k /\ rn_runs[j].env_key = rn_runs[k].env_key) =>
                      rn_runs[j].test_number # rn_runs[k].test_number

\* the third test of a list of ten or more has been run in the second
\* configuration, as 03 again
C24_Witness ==
    /\ Len(test_list) >= 10
    /\ Len(selected_configs) = 2
    /\ \E j, k \in 1..Len(rn_runs) :
           /\ rn_runs[j].env_key = selected_configs[1]
           /\ rn_runs[k].env_key = selected_configs[2]
           /\ rn_runs[j].index = 3
           /\ rn_runs[k].index = 3
           /\ rn_runs[k].test_number = <<"0", "3">>
           /\ rn_runs[k].output_filename
                  = <<"0", "3", "_">> \o tritonbench \o <<"_", "a">> \o DotLog

\* the last call of run_single_test for test name and configuration env_key
LastRunOf(name, env_key) ==
    CHOOSE k \in 1..Len(rn_runs) :
        /\ test_list[rn_runs[k].index] = name
        /\ rn_runs[k].env_key = env_key
        /\ \A j \in (k + 1)..Len(rn_runs) :
               ~(test_list[rn_runs[j].index] = name /\ rn_runs[j].env_key = env_key)

\* C25: every call of run_single_test returns, with exactly one of PASSED,
\* FAILED, TIMEOUT, ERROR: PASSED iff the subprocess ended with return code
\* 0 before the timeout, FAILED iff it ended with another return code,
\* TIMEOUT iff the timeout expired, ERROR for any other exception; and
\* run_all_tests stores the elapsed time in the cell iff the status is
\* PASSED, the status string otherwise
C25_StatusOfEveryCall ==
    /\ rn_pc # "raised"
    /\ \A k \in 1..Len(rn_runs) :
           /\ rn_runs[k].status \in {"PASSED", "FAILED", "TIMEOUT", "ERROR"}
           /\ rn_runs[k].status = "PASSED" <=> rn_runs[k].cause = "returncode 0"
           /\ rn_runs[k].status = "FAILED" <=> rn_runs[k].cause = "returncode not 0"
           /\ rn_runs[k].status = "TIMEOUT" <=> rn_runs[k].cause = "timeout"
           /\ rn_runs[k].status = "ERROR" <=> rn_runs[k].cause = "exception"
           /\ LET name == test_list[rn_runs[k].index]
                  last == rn_runs[LastRunOf(name, rn_runs[k].env_key)]
                  cell == Get(Get(test_results, name).cells, rn_runs[k].env_key)
              IN IF last.status = "PASSED"
                 THEN cell = [elapsed |-> last.elapsed_time, status |-> ""]
                 ELSE cell = [elapsed |-> -1, status |-> last.status]

(***************************************************************************)
(* The header run_single_test writes, as the parse functions read it       *)
(***************************************************************************)
\* \s, \w and \S of the patterns, on the characters of the texts
IsSpace(c) == c \in {" ", "\t"}

WordChars ==
    Digits \cup {"_"}
    \cup {"a", "b", "c", "d", "e", "f", "g", "h", "i", "j", "k", "l", "m",
          "n", "o", "p", "q", "r", "s", "t", "u", "v", "w", "x", "y", "z"}
    \cup {"A", "B", "C", "D", "E", "F", "G", "H", "I", "J", "K", "L", "M",
          "N", "O", "P", "Q", "R", "S", "T", "U", "V", "W", "X", "Y", "Z"}

IsWord(c) == c \in WordChars

\* text has pat at position i
FindAt(text, pat, i) ==
    i + Len(pat) - 1 <= Len(text) /\ SubSeq(text, i, i + Len(pat) - 1) = pat

\* the length of the longest run of characters of text from position i on
\* that satisfy Class
RunFrom(text, i, Class(_)) ==
    IF \E j \in i..Len(text) : ~Class(text[j])
    THEN (CHOOSE j \in i..Len(text) :
              ~Class(text[j]) /\ \A h \in i..(j - 1) : Class(text[h])) - i
    ELSE IF i > Len(text) THEN 0 ELSE Len(text) - i + 1

\* the leftmost position of Starts, 0 if there is none
Leftmost(Starts) ==
    IF Starts = {} THEN 0 ELSE CHOOSE i \in Starts : \A j \in Starts : i <= j

\* re.search(r'Test Number:\s+(\d+)', line): group(1), None without a match
SearchNumber(text) ==
    LET pat == <<"T", "e", "s", "t", " ", "N", "u", "m", "b", "e", "r", ":">>
        Ok(i) == /\ FindAt(text, pat, i)
                 /\ RunFrom(text, i + Len(pat), IsSpace) >= 1
                 /\ RunFrom(text, i + Len(pat) + RunFrom(text, i + Len(pat), IsSpace),
                            IsDigit) >= 1
        i == Leftmost({j \in 1..Len(text) : Ok(j)})
        d == i + Len(pat) + RunFrom(text, i + Len(pat), IsSpace)
    IN IF i = 0 THEN None ELSE SubSeq(text, d, d + RunFrom(text, d, IsDigit) - 1)

\* re.search(r'Test:\s+(.+)', line): group(1).strip(), None without a match;
\* when only spaces follow "Test:", \s+ gives the last of them to (.+)
SearchName(text) ==
    LET pat == <<"T", "e", "s", "t", ":">>
        Ok(i) == /\ FindAt(text, pat, i)
                 /\ RunFrom(text, i + Len(pat), IsSpace) >= 1
                 /\ i + Len(pat) + 1 <= Len(text)
        i == Leftmost({j \in 1..Len(text) : Ok(j)})
        s == RunFrom(text, i + Len(pat), IsSpace)
        g == IF i + Len(pat) + s <= Len(text) THEN i + Len(pat) + s ELSE Len(text)
    IN IF i = 0 THEN None ELSE Strip(SubSeq(text, g, Len(text)))

\* re.search(r'(test_\w+\.py::\S+)', line): group(1), None without a match
SearchPytest(text) ==
    LET NonSpace(c) == ~IsSpace(c)
        End(i) == i + Len(TestPrefix) + RunFrom(text, i + Len(TestPrefix), IsWord)
        Ok(i) == /\ FindAt(text, TestPrefix, i)
                 /\ RunFrom(text, i + Len(TestPrefix), IsWord) >= 1
                 /\ FindAt(text, <<".", "p", "y", ":", ":">>, End(i))
                 /\ RunFrom(text, End(i) + 5, NonSpace) >= 1
        i == Leftmost({j \in 1..Len(text) : Ok(j)})
    IN IF i = 0 THEN None
       ELSE SubSeq(text, i, End(i) + 4 + RunFrom(text, End(i) + 5, NonSpace))

\* a line of text that holds no kernel record, as the parse functions see it
LineOfText(text) == Line(SearchNumber(text), SearchName(text), SearchPytest(text), <<>>)

\* ' '.join(cmd) of run_single_test
CommandText(repo, stem, function, prefix) ==
    (IF prefix THEN <<"/", "u", "s", "r", "/", "b", "i", "n", "/", "t", "i", "m", "e", " ", "-", "v", " ">> ELSE <<>>)
    \o (IF repo = tritonbench THEN <<"p", "y", "t", "h", "o", "n", " ">> \o stem \o <<".", "p", "y">>
        ELSE IF Truthy(function)
             THEN <<"p", "y", "t", "e", "s", "t", " ", "-", "s", " ", "-", "-", "a", "s", "s", "e", "r", "t", "=", "p", "l", "a", "i", "n", " ">> \o stem \o <<".", "p", "y", ":", ":">> \o function
             ELSE <<"p", "y", "t", "e", "s", "t", " ", "-", "s", " ", "-", "-", "a", "s", "s", "e", "r", "t", "=", "p", "l", "a", "i", "n", " ">> \o stem \o <<".", "p", "y">>)

\* the lines run_single_test writes before it starts the subprocess
HeaderText(number, repo, stem, function, prefix) ==
    << <<"T", "e", "s", "t", " ", "N", "u", "m", "b", "e", "r", ":", " ">> \o number,
       <<"T", "e", "s", "t", ":", " ">> \o ListedTestName(repo, stem, function),
       <<"E", "n", "v", "i", "r", "o", "n", "m", "e", "n", "t", ":", " ", "b", "a", "s", "e", "l", "i", "n", "e", "_", "c", "o", "m", "p", "i", "l", "e", "_", "n", "o", "_", "c", "a", "c", "h", "e">>,
       <<"C", "o", "m", "m", "a", "n", "d", ":", " ">> \o CommandText(repo, stem, function, prefix),
       <<"S", "t", "a", "r", "t", " ", "T", "i", "m", "e", ":", " ", "2", "0", "2", "5", "-", "0", "1", "-", "0", "1", "T", "0", "0", ":", "0", "0", ":", "0", "0">>,
       <<"=", "=", "=", "=">> >>

\* the lines it appends when the subprocess has ended
FooterText == << <<"=", "=", "=", "=">>, <<"E", "n", "d", " ", "T", "i", "m", "e", ":", " ", "2", "0", "2", "5", "-", "0", "1", "-", "0", "1", "T", "0", "0", ":", "0", "0", ":", "0", "1">>,
                 <<"E", "l", "a", "p", "s", "e", "d", " ", "T", "i", "m", "e", ":", " ", "1", ".", "0", "0", "0", "0", " ", "s", "e", "c", "o", "n", "d", "s">>, <<"S", "t", "a", "t", "u", "s", ":", " ", "P", "A", "S", "S", "E", "D">> >>

\* the whole log, the lines of the subprocess in between
LogLines(number, repo, stem, function, prefix, child) ==
    [i \in 1..6 |-> LineOfText(HeaderText(number, repo, stem, function, prefix)[i])]
    \o child
    \o [i \in 1..Len(FooterText) |-> LineOfText(FooterText[i])]

(***************************************************************************)
(* SpecHeader: run_single_test writes the log of one test, the subprocess  *)
(* adding up to MaxChildLines lines, and a parse function reads it line by *)
(* line                                                                    *)
(***************************************************************************)
MaxChildLines == 2

\* what a test prints: kernel records, a pytest identifier of its own, a
\* line with both a "Test:" header and a pytest identifier
ChildLines ==
    { Line(None, None, None, <<Seg("liger", "k1", T25)>>),
      Line(None, None, None, <<Seg("viz", "k1", T20)>>),
      LineOfText(<<"t", "e", "s", "t", "_", "b", ".", "p", "y", ":", ":", "t", "e", "s", "t", "_", "c", " ", "P", "A", "S", "S", "E", "D">>),
      LineOfText(<<"T", "e", "s", "t", ":", " ", "b", " ", "t", "e", "s", "t", "_", "b", ".", "p", "y", ":", ":", "t", "e", "s", "t", "_", "d">>) }

InitHeader ==
    /\ hd_repo \in {liger_kernel, flag_gems, tritonbench}
    /\ hd_stem \in TestPrefixed
    /\ hd_function \in (IF hd_repo = tritonbench THEN {None}
                        ELSE {None, <<"t", "e", "s", "t", "_", "a">>, <<"t", "e", "s", "t", "_", "a", "[", "p", "]">>})
    /\ hd_number \in {TestNumber(1, 2), TestNumber(1, 10)}
    /\ hd_prefix \in BOOLEAN
    /\ hd_child \in SeqsUpTo(ChildLines, MaxChildLines)
    /\ hd_log = <<>>
    /\ hd_pc = "start"
    /\ is_triton_sanitizer \in BOOLEAN
    /\ lines_read = <<>>
    /\ test_name = None
    /\ test_number = None
    /\ results = <<>>
    /\ parse_pc = "open"
    /\ parse_exc = "none"
    /\ parse_ret = <<>>
    /\ totals = <<>>
    /\ IdleNorm /\ IdleOverhead /\ IdleConfig /\ IdleCsv /\ IdleMain /\ IdleFind /\ IdleRunner /\ IdleSum /\ IdleAblation /\ IdleFormat /\ IdleAsan /\ IdleLayout /\ IdleAgain /\ IdlePrepare

\* run_single_test, from the header to the footer
WriteLog ==
    /\ hd_pc = "start"
    /\ hd_log' = LogLines(hd_number, hd_repo, hd_stem, hd_function, hd_prefix, hd_child)
    /\ hd_pc' = "written"
    /\ UNCHANGED <<hd_repo, hd_stem, hd_function, hd_number, hd_prefix, hd_child,
                   parseVars, exceptHeaderParse>>

\* one iteration of "for line in f" on the log written
ReadLogLine ==
    /\ hd_pc = "written"
    /\ parse_pc = "scan"
    /\ Len(lines_read) < Len(hd_log)
    /\ LET line == hd_log[Len(lines_read) + 1]
           st == ScanLine(is_triton_sanitizer,
                          [test_name |-> test_name, test_number |-> test_number,
                           results |-> results, exc |-> "none"],
                          line)
       IN /\ lines_read' = Append(lines_read, line)
          /\ test_name' = st.test_name
          /\ test_number' = st.test_number
          /\ results' = st.results
          /\ parse_exc' = st.exc
          /\ IF st.exc = "none"
             THEN UNCHANGED <<parse_pc, parse_ret>>
             ELSE /\ parse_pc' = IF Caught(st.exc) THEN "returned" ELSE "raised"
                  /\ parse_ret' = ParseReturn(st.exc, st.results)
    /\ UNCHANGED <<is_triton_sanitizer, totals, exceptParse>>

\* the end of the log: the parse function returns results
EndOfLog ==
    /\ hd_pc = "written"
    /\ parse_pc = "scan"
    /\ Len(lines_read) = Len(hd_log)
    /\ parse_ret' = ParseReturn("none", results)
    /\ parse_pc' = "returned"
    /\ UNCHANGED <<is_triton_sanitizer, lines_read, test_name, test_number, results,
                   parse_exc, totals, exceptParse>>

NextHeader ==
    \/ WriteLog
    \/ hd_pc = "written" /\ OpenOk
    \/ ReadLogLine
    \/ EndOfLog

SpecHeader == InitHeader /\ [][NextHeader]_vars

\* the pytest identifier of the test the log was written for
PytestIdentifier == hd_stem \o <<".", "p", "y", ":", ":">> \o hd_function

\* the key made of the "Test Number:" and "Test:" lines
NumberedKey == hd_number \o <<"_">> \o ListedTestName(hd_repo, hd_stem, hd_function)

\* the last line read that matched "Test:" or the pytest pattern, 0 if none
LastIdentifierLine ==
    LET S == {i \in 1..Len(lines_read) :
                 lines_read[i].name # None \/ lines_read[i].pytest # None}
    IN IF S = {} THEN 0 ELSE CHOOSE i \in S : \A j \in S : j <= i

\* the kernel records stored while line i was the last identifier line: the
\* records of the lines from i on that hold one
RecordsSince(i) ==
    LET S == {j \in i..Len(lines_read) :
                 MetricMatch(is_triton_sanitizer, lines_read[j]) # NoSeg}
    IN Cardinality(S)

\* C26: in a log run_single_test wrote for a pytest test function, the
\* identifier in effect after the header is the pytest identifier
\* '<file>.py::<function>' of the Command line, not the numbered key: the
\* latest line that matches "Test:" or the pytest pattern gives the
\* identifier, the pytest match winning on a line that matches both, and
\* the kernel records that follow are stored under it
C26_PytestIdentifierReplacesKey ==
    /\ (LastIdentifierLine = 4 /\ Truthy(hd_function)) =>
           /\ test_name = PytestIdentifier
           /\ test_name # NumberedKey
           /\ RecordsSince(4) > 0 =>
                  /\ HasKey(results, PytestIdentifier)
                  /\ ~HasKey(results, NumberedKey)
    /\ LastIdentifierLine > 0 =>
           LET line == lines_read[LastIdentifierLine]
           IN IF line.pytest # None THEN test_name = line.pytest
              ELSE test_name = IF Truthy(test_number) /\ Truthy(line.name)
                               THEN test_number \o <<"_">> \o line.name
                               ELSE line.name

\* the header of a pytest function has been read, then a kernel record
C26_Witness ==
    /\ Truthy(hd_function)
    /\ LastIdentifierLine = 4
    /\ Len(lines_read) = 7
    /\ test_name = hd_stem \o <<".", "p", "y", ":", ":", "t", "e", "s", "t", "_", "a", "[", "p", "]">>
    /\ lines_read[2].name = ListedTestName(hd_repo, hd_stem, hd_function)
    /\ lines_read[3] = Line(None, None, None, <<>>)
    /\ HasKey(results, PytestIdentifier)
    /\ Len(Get(results, PytestIdentifier)) = 1

(***************************************************************************)
(* Where the runner writes its kernel-timing logs and where                *)
(* analyze_kernel_time.find_log_files looks for them                       *)
(***************************************************************************)
\* ENV_CONFIGS of runner.py: the configurations of the kernel-timing groups
KernelTimeConfigs ==
    << [key |-> "kernel_time_baseline",
        group |-> "kernel_time_liger_kernel", name |-> "baseline"],
       [key |-> "kernel_time_compute_sanitizer",
        group |-> "kernel_time_liger_kernel", name |-> "compute-sanitizer"],
       [key |-> "kernel_time_triton_sanitizer",
        group |-> "kernel_time_liger_kernel", name |-> "triton-sanitizer"],
       [key |-> "pytest_kernel_time_baseline",
        group |-> "kernel_time", name |-> "baseline"],
       [key |-> "pytest_kernel_time_compute_sanitizer",
        group |-> "kernel_time", name |-> "compute-sanitizer"],
       [key |-> "pytest_kernel_time_triton_sanitizer",
        group |-> "kernel_time", name |-> "triton-sanitizer"],
       [key |-> "kernel_time_tritonbench_baseline",
        group |-> "kernel_time_tritonbench", name |-> "baseline"],
       [key |-> "kernel_time_tritonbench_compute_sanitizer",
        group |-> "kernel_time_tritonbench", name |-> "compute-sanitizer"],
       [key |-> "kernel_time_tritonbench_triton_sanitizer",
        group |-> "kernel_time_tritonbench", name |-> "triton-sanitizer"] >>

\* "output_dir = self.output_base_dir / env_config['group'] / env_config['name']"
OutputDir(config) == [group |-> config.group, name |-> config.name]

\* the disk at the candidate paths of find_log_files(output_dir, config_name)
\* once file has been written in directory dir
CandidatesAfterWrite(cands, config_name, dir, file) ==
    [c \in 1..Len(cands) |->
        IF dir.name = config_name /\ dir.group = possible_paths("kernel_time")[c]
        THEN [kind |-> "dir",
              entries |-> cands[c].entries
                          \cup {At(possible_paths("kernel_time")[c], Entry(0, file, FALSE))}]
        ELSE cands[c]]

(***************************************************************************)
(* SpecLayout: the runner writes up to MaxWritten logs for the             *)
(* configurations of one kernel-timing group, then find_log_files is       *)
(* called on the same output directory for one configuration name          *)
(***************************************************************************)
MaxWritten == 3

InitLayout ==
    /\ ly_group \in {KernelTimeConfigs[i].group : i \in 1..Len(KernelTimeConfigs)}
    /\ ly_config_name \in {KernelTimeConfigs[i].name : i \in 1..Len(KernelTimeConfigs)}
    /\ ly_written = {}
    /\ fl_script = "kernel_time"
    /\ fl_cands = [i \in 1..Len(possible_paths("kernel_time")) |-> Missing]
    /\ fl_pc = "setup"
    /\ fl_probed = <<>>
    /\ config_path = 0
    /\ log_files = <<>>
    /\ IdleNorm /\ IdleParse /\ IdleOverhead /\ IdleConfig /\ IdleCsv /\ IdleMain /\ IdleRunner /\ IdleSum /\ IdleAblation /\ IdleFormat /\ IdleAsan /\ IdleHeader /\ IdleAgain /\ IdlePrepare

\* run_single_test for configuration c of the group and the test with
\* this counter: the directory is made and the log written
RunnerWritesLog(c, counter) ==
    /\ fl_pc = "setup"
    /\ KernelTimeConfigs[c].group = ly_group
    /\ Cardinality(ly_written) < MaxWritten
    /\ LET dir == OutputDir(KernelTimeConfigs[c])
           file == OutputFilename(TestNumber(counter, MaxWritten), tritonbench,
                                  TestFileStem(NumberedList(counter)[counter]), None)
       IN /\ [group |-> dir.group, name |-> dir.name, file |-> file] \notin ly_written
          /\ ly_written' = ly_written \cup {[group |-> dir.group, name |-> dir.name,
                                             file |-> file]}
          /\ fl_cands' = CandidatesAfterWrite(fl_cands, ly_config_name, dir, file)
    /\ UNCHANGED <<ly_group, ly_config_name, fl_script, fl_pc, fl_probed, config_path,
                   log_files, exceptFindLayout>>

NextLayout ==
    \/ \E c \in 1..Len(KernelTimeConfigs), counter \in 1..MaxWritten :
           RunnerWritesLog(c, counter)
    \/ CallFindLogFiles
    \/ ProbePath
    \/ ReturnNoFiles
    \/ \E perm \in UNION {IterationOrders(1..k) : k \in 0..MaxWritten} :
           CollectLogFiles(perm)

SpecLayout == InitLayout /\ [][NextLayout]_vars

\* the names of the logs the runner wrote for the configuration asked for
WrittenFor(config_name) == {w.file : w \in {x \in ly_written : x.name = config_name}}

\* C27: for each kernel-timing group the runner can write (kernel_time,
\* kernel_time_liger_kernel, kernel_time_tritonbench) and each of its
\* configuration names, find_log_files(output_dir, name) returns exactly
\* the log files the runner wrote for that configuration under output_dir,
\* each once
C27_FindsRunnerLogs ==
    fl_pc = "done" =>
        /\ {log_files[i].name : i \in 1..Len(log_files)} = WrittenFor(ly_config_name)
        /\ Len(log_files) = Cardinality(WrittenFor(ly_config_name))

\* the calls of run_single_test that returned for an entry named name
RunsOf(name) == {k \in 1..Len(rn_runs) : test_list[rn_runs[k].index] = name}

\* the test names of test_list
ListedNames == {test_list[i] : i \in 1..Len(test_list)}

\* C28: when test_list entries share a test_name, test_results holds a
\* single row for it: its test_number is the one of the first such entry
\* run, its value for each configuration the outcome of the last such entry
\* run in that configuration; and the results CSV has one row for each
\* distinct test_name
C28_OneRowPerTestName ==
    /\ rn_pc \in {"ready", "running", "done", "raised", "saved"} /\ test_list # <<>> =>
           /\ Keys(test_results) = ListedNames
           /\ Len(test_results) = Cardinality(ListedNames)
           /\ \A name \in ListedNames :
                  LET row == Get(test_results, name)
                  IN /\ IF RunsOf(name) = {} THEN row.test_number = None
                        ELSE row.test_number
                                 = rn_runs[CHOOSE k \in RunsOf(name) :
                                               \A j \in RunsOf(name) : k <= j].test_number
                     /\ \A e \in 1..Len(selected_configs) :
                            LET env_key == selected_configs[e]
                            IN IF \E k \in RunsOf(name) : rn_runs[k].env_key = env_key
                               THEN /\ HasKey(row.cells, env_key)
                                    /\ Get(row.cells, env_key)
                                           = CellValue(rn_runs[LastRunOf(name, env_key)].status,
                                                 rn_runs[LastRunOf(name, env_key)].elapsed_time)
                               ELSE ~HasKey(row.cells, env_key)
    /\ rn_pc = "saved" =>
           /\ Len(results_csv) = 1 + Cardinality(ListedNames)
           /\ \A name \in ListedNames :
                  Cardinality({r \in 2..Len(results_csv) : results_csv[r].Test_Name = name}) = 1

\* two entries with one name were run: the first passed as number 1, the
\* second failed as number 2, and the CSV has the header and one row, with
\* number 1 and FAILED
C28_Witness ==
    /\ rn_pc = "saved"
    /\ test_list = <<"tritonbench/a", "tritonbench/a">>
    /\ selected_configs = <<"baseline_compile_no_cache">>
    /\ rn_runs[1].status = "PASSED"
    /\ rn_runs[2].status = "FAILED"
    /\ Len(results_csv) = 2
    /\ results_csv[2].Test_Number = <<"1">>
    /\ results_csv[2].values[1] = StatusText("FAILED")

(***************************************************************************)
(* SpecCsvTwice: export_to_csv is executed a second time (by another       *)
(* process, as a rule) on the result maps of the first execution           *)
(***************************************************************************)
\* export_to_csv again: order is the iteration order the set all_tests has
\* in this execution
ExportToCsvAgain(order, write_ok) ==
    /\ csv_pc \in {"written", "failed"}
    /\ csv_again_pc = "no"
    /\ order \in IterationOrders(AllTests(baseline_totals, compute_totals, triton_totals))
    /\ LET all_original_tests ==
               AllOriginalTests(<<>>, <<baseline_totals, compute_totals, triton_totals>>)
           sorted_tests == SortedByNumber(order, all_original_tests)
       IN csv_data_again' = CsvData(sorted_tests,
                                    aggregate_by_function(baseline_totals),
                                    aggregate_by_function(compute_totals),
                                    aggregate_by_function(triton_totals))
    /\ csv_again_pc' = IF write_ok THEN "written" ELSE "failed"
    /\ UNCHANGED <<csvVars, exceptCsvAgain>>

NextCsvTwice ==
    \/ NextCsv
    \/ \E order \in IterationOrders(AllTests(baseline_totals, compute_totals, triton_totals)),
          write_ok \in BOOLEAN : ExportToCsvAgain(order, write_ok)

SpecCsvTwice == InitCsv /\ [][NextCsvTwice]_vars

\* C29: the row order of the CSV export_to_csv writes is a function of its
\* inputs alone: two executions on the same three result maps give the
\* rows in the same order, also among logical tests with equal sort keys
C29_RowOrderDeterministic ==
    csv_again_pc # "no" => csv_data_again = csv_data

(***************************************************************************)
(* TestRunner.prepare_test_list (runner.py)                                *)
(***************************************************************************)
RepoNames == {"liger_kernel", "flag_gems", "tritonbench"}

\* test_function of a whole-file entry (None in the code)
NoFunction == ""

\* an entry of test_list
TestInfo(repo, file, function) ==
    [repository |-> repo,
     test_file |-> file.path,
     test_function |-> function,
     test_name |-> IF function = NoFunction THEN repo \o "/" \o file.stem
                   ELSE repo \o "/" \o file.stem \o "/" \o function]

\* "whitelist = whitelists.get(repo) if whitelists else None"
WhitelistOf(whitelists, repo) ==
    IF DictTruthy(whitelists) /\ HasKey(whitelists.d, repo)
    THEN SomeDict(Get(whitelists.d, repo))
    ELSE NoneDict

\* a plausible slip: a file the whitelist does not name is run as if there
\* were no whitelist
EntriesOfFileMissRunsAll(repo, whitelist, file) ==
    IF DictTruthy(whitelist) /\ HasKey(whitelist.d, file.stem)
    THEN IF repo = "tritonbench" THEN <<TestInfo(repo, file, NoFunction)>>
         ELSE [i \in 1..Len(Get(whitelist.d, file.stem)) |->
                  TestInfo(repo, file, Get(whitelist.d, file.stem)[i])]
    ELSE IF DictTruthy(whitelist) /\ repo = "tritonbench" THEN <<>>
    ELSE IF repo \in {"liger_kernel", "flag_gems"}
         THEN IF file.functions # <<>>
              THEN [i \in 1..Len(file.functions) |-> TestInfo(repo, file, file.functions[i])]
              ELSE <<TestInfo(repo, file, NoFunction)>>
         ELSE <<TestInfo(repo, file, NoFunction)>>

\* one turn of "for test_file in test_files": the entries appended;
\* file.functions is what discover_test_functions returns, <<>> for None
EntriesOfFile(repo, whitelist, file) ==
    IF DictTruthy(whitelist) /\ HasKey(whitelist.d, file.stem)
    THEN IF repo = "tritonbench" THEN <<TestInfo(repo, file, NoFunction)>>
         ELSE [i \in 1..Len(Get(whitelist.d, file.stem)) |->
                  TestInfo(repo, file, Get(whitelist.d, file.stem)[i])]
    ELSE IF DictTruthy(whitelist) /\ repo = "tritonbench" THEN <<>>
    ELSE IF ~DictTruthy(whitelist) /\ repo \in {"liger_kernel", "flag_gems"}
         THEN IF file.functions # <<>>
              THEN [i \in 1..Len(file.functions) |-> TestInfo(repo, file, file.functions[i])]
              ELSE <<TestInfo(repo, file, NoFunction)>>
         ELSE IF ~DictTruthy(whitelist) THEN <<TestInfo(repo, file, NoFunction)>>
              ELSE <<>>

\* "for test_file in test_files" for one repository
RECURSIVE EntriesOfRepo(_, _, _)
EntriesOfRepo(repo, whitelist, test_files) ==
    IF test_files = <<>> THEN <<>>
    ELSE EntriesOfFile(repo, whitelist, Head(test_files))
         \o EntriesOfRepo(repo, whitelist, Tail(test_files))

\* "for repo in repositories"
RECURSIVE PreparedList(_, _, _)
PreparedList(repositories, disk, whitelists) ==
    IF repositories = <<>> THEN <<>>
    ELSE EntriesOfRepo(Head(repositories), WhitelistOf(whitelists, Head(repositories)),
                       disk[Head(repositories)])
         \o PreparedList(Tail(repositories), disk, whitelists)

(***************************************************************************)
(* SpecPrepare: prepare_test_list for one or two repositories with up to   *)
(* MaxDiscovered test files each, with and without whitelists              *)
(***************************************************************************)
MaxDiscovered == 2

\* the test files discover_tests can return: for a pytest repository files
\* of one directory, with the functions discover_test_functions finds in
\* them; for tritonbench files of two benchmark directories
DiscoveredFiles(repo) ==
    IF repo = "tritonbench"
    THEN { [path |-> "data/TritonBench_G_v1/a.py", stem |-> "a", functions |-> <<>>],
           [path |-> "data/TritonBench_G_v1/b.py", stem |-> "b", functions |-> <<>>],
           [path |-> "LLM_generated/a.py", stem |-> "a", functions |-> <<>>] }
    ELSE { [path |-> "test_a.py", stem |-> "test_a", functions |-> <<"test_f", "test_g">>],
           [path |-> "test_b.py", stem |-> "test_b", functions |-> <<>>],
           [path |-> "test_c.py", stem |-> "test_c", functions |-> <<"test_f">>] }

\* the whitelists load_whitelist can return for a repository, and {}
RepoWhitelists(repo) ==
    IF repo = "tritonbench"
    THEN { <<>>,
           << [k |-> "a", v |-> <<>>] >>,
           << [k |-> "b", v |-> <<>>], [k |-> "z", v |-> <<>>] >> }
    ELSE { <<>>,
           << [k |-> "test_a", v |-> <<"test_g", "test_f">>] >>,
           << [k |-> "test_b", v |-> <<"test_h[p]">>],
              [k |-> "test_z", v |-> <<"test_f">>] >>,
           << [k |-> "test_c", v |-> <<"test_f", "test_f">>] >> }

\* the lists without repetition of up to n elements of S
DistinctSeqs(S, n) ==
    {s \in SeqsUpTo(S, n) : \A i, j \in 1..Len(s) : s[i] = s[j] => i = j}

\* whitelists for some of the repositories
RECURSIVE WhitelistDicts(_)
WhitelistDicts(repositories) ==
    IF repositories = <<>> THEN {<<>>}
    ELSE LET rest == WhitelistDicts(Tail(repositories))
         IN rest \cup {<<[k |-> Head(repositories), v |-> w]>> \o d :
                          w \in RepoWhitelists(Head(repositories)), d \in rest}

InitPrepare ==
    /\ pl_repositories \in DistinctSeqs(RepoNames, 2) \ {<<>>}
    /\ pl_disk \in [RepoNames -> UNION {DistinctSeqs(DiscoveredFiles(r), MaxDiscovered) :
                                           r \in RepoNames}]
    /\ \A r \in RepoNames :
           IF \E i \in 1..Len(pl_repositories) : pl_repositories[i] = r
           THEN pl_disk[r] \in DistinctSeqs(DiscoveredFiles(r), MaxDiscovered)
           ELSE pl_disk[r] = <<>>
    /\ pl_whitelists \in {NoneDict} \cup {SomeDict(d) : d \in WhitelistDicts(pl_repositories)}
    /\ pl_test_list = <<>>
    /\ pl_total_tests = 0
    /\ pl_pc = "start"
    /\ IdleNorm /\ IdleParse /\ IdleOverhead /\ IdleConfig /\ IdleCsv /\ IdleMain /\ IdleFind /\ IdleRunner /\ IdleSum /\ IdleAblation /\ IdleFormat /\ IdleAsan /\ IdleHeader /\ IdleLayout /\ IdleAgain

\* prepare_test_list
PrepareTestList ==
    /\ pl_pc = "start"
    /\ pl_test_list' = PreparedList(pl_repositories, pl_disk, pl_whitelists)
    /\ pl_total_tests' = Len(PreparedList(pl_repositories, pl_disk, pl_whitelists))
    /\ pl_pc' = "prepared"
    /\ UNCHANGED <<pl_repositories, pl_disk, pl_whitelists, exceptPrepare>>

\* run_all_tests with an empty list: "No tests found to run"
NoTestsFound ==
    /\ pl_pc = "prepared"
    /\ pl_test_list = <<>>
    /\ pl_pc' = "returned"
    /\ UNCHANGED <<pl_repositories, pl_disk, pl_whitelists, pl_test_list, pl_total_tests,
                   exceptPrepare>>

NextPrepare ==
    \/ PrepareTestList
    \/ NoTestsFound

SpecPrepare == InitPrepare /\ [][NextPrepare]_vars

\* the entries of the list for file of repository repo, in list order
EntriesFor(repo, file) ==
    SelectSeq(pl_test_list,
              LAMBDA e : e.repository = repo /\ e.test_file = file.path)

\* the test functions of a list of entries
FunctionsOf(entries) == [i \in 1..Len(entries) |-> entries[i].test_function]

\* C30: with a non-empty whitelist for a repository prepare_test_list adds
\* only whitelisted tests: for a pytest repository one entry for each
\* whitelisted function of each discovered whitelisted file, in whitelist
\* order, and none for a discovered file the whitelist does not name; for
\* tritonbench one whole-file entry for each discovered file whose stem is
\* whitelisted; without a whitelist every discovered file contributes at
\* least one entry
C30_WhitelistedTestsOnly ==
    pl_pc # "start" =>
        \A r \in 1..Len(pl_repositories) :
            LET repo == pl_repositories[r]
                whitelist == WhitelistOf(pl_whitelists, repo)
            IN \A f \in 1..Len(pl_disk[repo]) :
                   LET file == pl_disk[repo][f]
                       entries == EntriesFor(repo, file)
                   IN IF whitelist.is_none \/ whitelist.d = <<>>
                      THEN Len(entries) >= 1
                      ELSE IF ~HasKey(whitelist.d, file.stem) THEN entries = <<>>
                      ELSE IF repo = "tritonbench"
                           THEN FunctionsOf(entries) = <<NoFunction>>
                           ELSE FunctionsOf(entries) = Get(whitelist.d, file.stem)

\* a pytest repository with a whitelist that names the functions test_g and
\* test_f of test_a.py: of the files test_b.py and test_a.py found, only
\* the second is in the list, with test_g before test_f
C30_Witness ==
    /\ pl_pc = "prepared"
    /\ pl_repositories = <<"flag_gems">>
    /\ Len(pl_disk["flag_gems"]) = 2
    /\ pl_disk["flag_gems"][1].stem = "test_b"
    /\ pl_disk["flag_gems"][2].stem = "test_a"
    /\ [i \in 1..Len(pl_test_list) |-> pl_test_list[i].test_name]
           = <<"flag_gems/test_a/test_g", "flag_gems/test_a/test_f">>

====
